---- MODULE Spec2Model ----
(***************************************************************************)
(* A model of the speculum provider mirror: the filesystem storage, the    *)
(* mirror orchestrator (GetIndex, GetVersion, GetArchive and the manifest  *)
(* rewrite step) and the edge handlers' mapping from mirror errors to HTTP *)
(* statuses.                                                               *)
(*                                                                         *)
(* Strings are sequences of tokens.  The token "/" is the path separator,  *)
(* "?" and "#" end the path of a URL, "%zz" is a malformed percent escape, *)
(* "h1:" is the algorithm tag of a directory hash, "." and ".." are the    *)
(* dot segments; every other token is a run of characters that contains    *)
(* none of these.  A suffix such as ".zip" or ".upstream" is a token of    *)
(* its own, so "x.zip.upstream" is <<"x", ".zip", ".upstream">>.           *)
(***************************************************************************)
EXTENDS Integers, Sequences, FiniteSets, TLC

Slash == "/"

(***************************************************************************)
(* Go's strings package, on token sequences.                               *)
(***************************************************************************)
HasPrefix(s, pre) ==
    /\ Len(s) >= Len(pre)
    /\ SubSeq(s, 1, Len(pre)) = pre

HasSuffix(s, suf) ==
    /\ Len(s) >= Len(suf)
    /\ SubSeq(s, Len(s) - Len(suf) + 1, Len(s)) = suf

TrimSuffix(s, suf) ==
    IF HasSuffix(s, suf) THEN SubSeq(s, 1, Len(s) - Len(suf)) ELSE s

\* strings.Trim(s, "/"): every leading and every trailing separator goes.
RECURSIVE TrimLeft(_)
TrimLeft(s) ==
    IF s # <<>> /\ Head(s) = Slash THEN TrimLeft(Tail(s)) ELSE s

RECURSIVE TrimRight(_)
TrimRight(s) ==
    IF s # <<>> /\ s[Len(s)] = Slash
    THEN TrimRight(SubSeq(s, 1, Len(s) - 1))
    ELSE s

Trim(s) == TrimRight(TrimLeft(s))

\* strings.Split(s, "/"): the segments between separators, never empty as a
\* list (the split of "" is the one empty segment).
RECURSIVE SplitFrom(_, _, _)
SplitFrom(s, cur, acc) ==
    IF s = <<>> THEN Append(acc, cur)
    ELSE IF Head(s) = Slash
         THEN SplitFrom(Tail(s), <<>>, Append(acc, cur))
         ELSE SplitFrom(Tail(s), Append(cur, Head(s)), acc)

Split(s) == SplitFrom(s, <<>>, <<>>)

RECURSIVE JoinSegs(_)
JoinSegs(segs) ==
    IF segs = <<>> THEN <<>>
    ELSE IF Len(segs) = 1 THEN segs[1]
    ELSE segs[1] \o <<Slash>> \o JoinSegs(Tail(segs))

\* strings.ReplaceAll(s, "..", "")
RECURSIVE RemoveDotDot(_)
RemoveDotDot(s) ==
    IF s = <<>> THEN <<>>
    ELSE IF Head(s) = ".." THEN RemoveDotDot(Tail(s))
    ELSE <<Head(s)>> \o RemoveDotDot(Tail(s))

Contains(s, tok) == \E i \in 1..Len(s) : s[i] = tok

(***************************************************************************)
(* filepath.Clean: empty and "." segments go, "x/.." cancels, ".." at the  *)
(* root goes, a leading ".." of a relative path stays; the empty result    *)
(* is ".".                                                                 *)
(***************************************************************************)
RECURSIVE CleanSegs(_, _, _)
CleanSegs(segs, rooted, out) ==
    IF segs = <<>> THEN out
    ELSE LET seg == Head(segs)
             rest == Tail(segs)
         IN  IF seg = <<>> \/ seg = <<".">> THEN CleanSegs(rest, rooted, out)
             ELSE IF seg = <<"..">>
                  THEN IF out # <<>> /\ out[Len(out)] # <<"..">>
                       THEN CleanSegs(rest, rooted, SubSeq(out, 1, Len(out) - 1))
                       ELSE IF rooted THEN CleanSegs(rest, rooted, out)
                       ELSE CleanSegs(rest, rooted, Append(out, seg))
                  ELSE CleanSegs(rest, rooted, Append(out, seg))

Clean(s) ==
    LET rooted == s # <<>> /\ Head(s) = Slash
        body == JoinSegs(CleanSegs(Split(s), rooted, <<>>))
    IN  IF rooted THEN <<Slash>> \o body
        ELSE IF body = <<>> THEN <<".">> ELSE body

\* filepath.Join of two elements: joined by a separator, then cleaned.
Join(a, b) == Clean(a \o <<Slash>> \o b)

(***************************************************************************)
(* Bounds of the model.                                                    *)
(***************************************************************************)
\* Requests served concurrently (one goroutine each).
NumProcs == 2
\* Requests started in one behaviour.
MaxRequests == 4
\* Storage writes that fail (disk full, I/O error) in one behaviour.
MaxFailures == 1

Procs == 1..NumProcs

(***************************************************************************)
(* The values requests and upstream answers are drawn from.                *)
(***************************************************************************)
Hostname == <<"registry.example">>
Namespace == <<"hashicorp">>
ProviderType == <<"aws">>

Versions == {<<"5.0.0">>}

\* Upstream archive URLs: two origins serving a file of the same name, a URL
\* with a query, a URL url.Parse rejects, and the empty URL.
UrlX == <<"https:", "/", "/", "origin.example", "/", "x", ".zip">>
UrlX2 == <<"https:", "/", "/", "other.example", "/", "d", "/", "x", ".zip">>
UrlY == <<"https:", "/", "/", "origin.example", "/", "y", ".zip", "?", "sig">>
UrlBad == <<"https:", "/", "/", "origin.example", "/", "%zz", "/", "y", ".zip">>
UrlEmpty == <<>>

\* Tails of archive requests at the edge.
ArchiveTails == {<<"x", ".zip">>}

\* Archive bodies: a ZIP container and bytes that are no ZIP.
Bodies == {"zip", "junk"}

IsZip(body) == body = "zip"

HashZh == <<"zh:", "abc">>
HashUp == <<"h1:", "upstream">>
HashUp2 == <<"h1:", "upstream2">>

Platforms == {"linux_amd64", "darwin_arm64"}

\* An Archive value of types.go.
Archive(url, hashes) == [url |-> url, hashes |-> hashes]

\* What upstream serves at one time: an index, a manifest of the version and
\* the body of every archive.  Every index, manifest and body is served at
\* some time, and upstream may change between any two requests, so every
\* sequence of answers is possible.
Upstreams ==
    { [index |-> {<<"5.0.0">>}, body |-> "zip",
       manifest |-> [pl \in Platforms |->
                        IF pl = "linux_amd64" THEN Archive(UrlX, <<HashZh>>)
                        ELSE Archive(UrlX2, <<>>)]],
      [index |-> {<<"5.0.0">>, <<"5.1.0">>}, body |-> "junk",
       manifest |-> [pl \in Platforms |->
                        IF pl = "linux_amd64"
                        THEN Archive(UrlX, <<HashZh, HashUp>>)
                        ELSE Archive(UrlEmpty, <<HashZh>>)]] }

\* The archives of the manifests the rewrite step is examined on: every kind
\* of URL, with no hash, a zh hash, one h1 hash and two h1 hashes.
RewriteArchives ==
    { Archive(UrlX, <<HashZh>>), Archive(UrlX2, <<HashUp, HashUp2>>),
      Archive(UrlY, <<>>), Archive(UrlBad, <<HashUp>>),
      Archive(UrlEmpty, <<HashZh>>) }

RewriteUpstreams ==
    { [index |-> {<<"5.0.0">>}, body |-> "zip", manifest |-> m] :
        m \in [Platforms -> RewriteArchives] }

\* Mirror.baseURL values (config BaseURL; Validate rejects the empty one).
BaseURLs == { <<"http:", "/", "/", "mirror.example">>,
              <<"http:", "/", "/", "mirror.example", "/">> }

(***************************************************************************)
(* FilesystemStorage.  A storage is a function from the absolute paths of  *)
(* the files that exist to their contents; cacheDir is "/cache".           *)
(***************************************************************************)
CacheDir == <<Slash, "cache">>

\* File contents, by the kind of blob the writer stored.
IndexBlob(versions) == [kind |-> "index", versions |-> versions]
ManifestBlob(archives) == [kind |-> "manifest", archives |-> archives]
ArchiveBlob(body) == [kind |-> "archive", body |-> body]
TextBlob(str) == [kind |-> "text", str |-> str]
NoData == [kind |-> "none"]

indexPath(hostname, namespace, providerType) ==
    Clean(CacheDir \o <<Slash>> \o hostname \o <<Slash>> \o namespace
          \o <<Slash>> \o providerType \o <<Slash, "index", ".json">>)

versionPath(hostname, namespace, providerType, version) ==
    Clean(CacheDir \o <<Slash>> \o hostname \o <<Slash>> \o namespace
          \o <<Slash>> \o providerType \o <<Slash>> \o version \o <<".json">>)

archivePath(path) ==
    LET cleaned == Clean(path)
        nodots == IF Contains(cleaned, "..") THEN RemoveDotDot(cleaned)
                  ELSE cleaned
        sanitized == IF HasPrefix(nodots, <<Slash>>) THEN Tail(nodots)
                     ELSE nodots
    IN  Join(CacheDir, sanitized)

h1HashPath(path) == archivePath(path) \o <<".h1">>

upstreamURLPath(path) == archivePath(path) \o <<".upstream">>

\* readFile: a path outside the cache directory is an error, a missing file
\* is io.EOF.
readFile(f, path) ==
    IF ~HasPrefix(path, CacheDir) THEN [err |-> "other", data |-> NoData]
    ELSE IF path \in DOMAIN f THEN [err |-> "nil", data |-> f[path]]
    ELSE [err |-> "EOF", data |-> NoData]

\* writeFileAtomic, when it succeeds: the temporary file is renamed over the
\* path, so the file holds the old contents or the new, never a part.
writeFileAtomic(f, path, data) == (path :> data) @@ f

StorageGetIndex(f, h, n, t) == readFile(f, indexPath(h, n, t))

StoragePutIndex(f, h, n, t, data) == writeFileAtomic(f, indexPath(h, n, t), data)

StorageGetVersion(f, h, n, t, v) == readFile(f, versionPath(h, n, t, v))

StoragePutVersion(f, h, n, t, v, data) ==
    writeFileAtomic(f, versionPath(h, n, t, v), data)

\* os.Open of the archive file: a missing file is io.EOF.
StorageGetArchive(f, path) ==
    IF archivePath(path) \in DOMAIN f
    THEN [err |-> "nil", data |-> f[archivePath(path)]]
    ELSE [err |-> "EOF", data |-> NoData]

StoragePutArchive(f, path, data) == writeFileAtomic(f, archivePath(path), data)

\* A missing sidecar reads as the empty string and no error.
StorageGetH1Hash(f, path) ==
    LET r == readFile(f, h1HashPath(path))
    IN  IF r.err = "nil" THEN [err |-> "nil", str |-> r.data.str]
        ELSE IF r.err = "EOF" THEN [err |-> "nil", str |-> <<>>]
        ELSE [err |-> r.err, str |-> <<>>]

StoragePutH1Hash(f, path, h1Hash) ==
    writeFileAtomic(f, h1HashPath(path), TextBlob(h1Hash))

StorageGetUpstreamURL(f, path) ==
    LET r == readFile(f, upstreamURLPath(path))
    IN  IF r.err = "nil" THEN [err |-> "nil", str |-> r.data.str]
        ELSE IF r.err = "EOF" THEN [err |-> "nil", str |-> <<>>]
        ELSE [err |-> r.err, str |-> <<>>]

StoragePutUpstreamURL(f, path, upstreamURL) ==
    writeFileAtomic(f, upstreamURLPath(path), TextBlob(upstreamURL))

(***************************************************************************)
(* net/url.Parse, as far as extractFilename uses it: the fragment and the  *)
(* query are cut off, a malformed escape is an error, and the path is what *)
(* follows the scheme and the authority.                                   *)
(***************************************************************************)
RECURSIVE CutAt(_, _)
CutAt(s, toks) ==
    IF s = <<>> \/ Head(s) \in toks THEN <<>>
    ELSE <<Head(s)>> \o CutAt(Tail(s), toks)

Schemes == {"https:", "http:", "file:"}

RECURSIVE SkipAuthority(_)
SkipAuthority(s) ==
    IF s = <<>> \/ Head(s) = Slash THEN s ELSE SkipAuthority(Tail(s))

urlParse(rawURL) ==
    LET rest == CutAt(rawURL, {"?", "#"})
        hasScheme == rest # <<>> /\ Head(rest) \in Schemes
        afterScheme == IF hasScheme THEN Tail(rest) ELSE rest
        path == IF HasPrefix(afterScheme, <<Slash, Slash>>)
                THEN SkipAuthority(SubSeq(afterScheme, 3, Len(afterScheme)))
                ELSE afterScheme
    IN  IF Contains(rest, "%zz") THEN [err |-> "other", Path |-> <<>>]
        ELSE [err |-> "nil", Path |-> path]

Last(seq) == seq[Len(seq)]

\* Mirror.extractFilename: the last segment of the URL's path, or of the raw
\* string when the URL does not parse.
extractFilename(archiveURL) ==
    LET u == urlParse(archiveURL)
    IN  IF u.err # "nil" THEN Last(Split(archiveURL))
        ELSE Last(Split(Trim(u.Path)))

\* fmt.Sprintf("%s/%s/%s/%s", hostname, namespace, providerType, filename)
ProviderPath(hostname, namespace, providerType, filename) ==
    hostname \o <<Slash>> \o namespace \o <<Slash>> \o providerType
    \o <<Slash>> \o filename

\* computeH1Hash: bytes that are no ZIP container are an error
\* (zip.NewReader fails); a ZIP yields the "h1:" hash of its extracted tree.
computeH1Hash(archiveData) ==
    IF IsZip(archiveData)
    THEN [err |-> "nil", hash |-> <<"h1:", archiveData>>]
    ELSE [err |-> "other", hash |-> <<>>]

(***************************************************************************)
(* UpstreamClient.  A metadata fetch is decided by the answers upstream    *)
(* gives to its attempts: 0 is a transport failure, any other number the   *)
(* status of the response.                                                 *)
(***************************************************************************)
\* Config.MaxRetries of the modelled deployment.
MaxRetries == 1

Answers == {0, 200, 404, 500}

AnswerSeqs == [1..(MaxRetries + 1) -> Answers]

\* A fetch that gives up after one attempt (C12 tells it from fetchFrom).
fetchOnce(answers, attempt, lastErr, lastStatus) ==
    IF answers[attempt + 1] = 0
    THEN [err |-> "other", status |-> lastStatus, requests |-> attempt + 1]
    ELSE [err |-> "nil", status |-> answers[attempt + 1], requests |-> attempt + 1]

\* UpstreamClient.fetch from attempt number `attempt` on: the error, the
\* status and the number of requests issued.
RECURSIVE fetchFrom(_, _, _, _)
fetchFrom(answers, attempt, lastErr, lastStatus) ==
    IF attempt > MaxRetries
    THEN [err |-> "other", status |-> lastStatus, requests |-> attempt]
    ELSE LET a == answers[attempt + 1]
         IN  IF a = 0
             THEN fetchFrom(answers, attempt + 1, "other", lastStatus)
             ELSE IF a >= 400 /\ a < 500
             THEN [err |-> "nil", status |-> a, requests |-> attempt + 1]
             ELSE IF a >= 500
             THEN fetchFrom(answers, attempt + 1,
                            IF attempt < MaxRetries THEN lastErr ELSE "other", a)
             ELSE [err |-> "nil", status |-> a, requests |-> attempt + 1]

fetch(answers) == fetchFrom(answers, 0, "nil", 0)

\* What a fetch can return, over all the answers upstream may give.
FetchResults == {fetch(answers) : answers \in AnswerSeqs}

\* A fetch of metadata that knows no ErrNotFound (C11 tells it from
\* FetchMetadata).
FetchMetadataNo404(r, document) ==
    IF r.err # "nil" \/ r.status # 200
        THEN [err |-> "other", response |-> NoData, requests |-> r.requests]
        ELSE [err |-> "nil", response |-> document, requests |-> r.requests]

\* FetchIndex and FetchVersion in the mirror-protocol dialect: what they
\* return for the result r of fetch and the document upstream holds.
FetchMetadata(r, document) ==
    IF r.err # "nil"
        THEN [err |-> r.err, response |-> NoData, requests |-> r.requests]
        ELSE IF r.status = 404
        THEN [err |-> "ErrNotFound", response |-> NoData, requests |-> r.requests]
        ELSE IF r.status # 200
        THEN [err |-> "other", response |-> NoData, requests |-> r.requests]
        ELSE [err |-> "nil", response |-> document, requests |-> r.requests]

\* A FetchArchive that takes every status from 200 to 299 for success.
FetchArchiveSuccess(answer, body) ==
    IF answer >= 200 /\ answer < 300 THEN [err |-> "nil", body |-> body]
    ELSE [err |-> "other", body |-> ""]

\* FetchArchive: one GET, never retried; only status 200 yields the body.
FetchArchive(answer, body) ==
    IF answer = 200 THEN [err |-> "nil", body |-> body]
    ELSE [err |-> "other", body |-> ""]

(***************************************************************************)
(* The state.                                                              *)
(***************************************************************************)
VARIABLES
    fs,        \* the files under the cache directory
    upstream,  \* what upstream serves now: index, manifest, archive body
    req,       \* per goroutine: the request it serves and where it stands
    started,   \* requests started so far
    failures,  \* storage writes that failed so far
    baseURL,   \* Mirror.baseURL
    disk,      \* the file system, file by file (see the storage calls below)
    calls,     \* per thread: the storage call it is in
    ncalls,    \* storage calls started so far
    last,      \* the response written last (see RespondKeep)
    client     \* the upstream client on its own (see FetchIndex)

vars == <<fs, upstream, req, started, failures, baseURL, disk, calls, ncalls, last,
          client>>

\* The mirror as a whole, and the file-level view of its storage.
mirrorVars == <<fs, upstream, req, started, failures, baseURL, last, client>>

storageVars == <<disk, calls, ncalls>>

\* What the steps of the mirror leave alone.
aside == <<storageVars, last, client>>

\* Threads that call the storage at the same time.
NumThreads == 3
\* Storage calls started in one behaviour.
MaxCalls == 3

Threads == 1..NumThreads

\* A thread that is in no storage call.
IdleCall ==
    [ pc |-> "idle", op |-> "none", key |-> <<>>,
      path |-> <<>>,      \* the file the call is for
      tmp |-> <<>>,       \* the file a write creates
      ino |-> 0,          \* the open file
      data |-> <<>>,      \* chunks still to write
      got |-> <<>>,       \* chunks read
      err |-> "nil" ]

\* A disk is the directory entries (path to file number) and the contents
\* of the files, chunk by chunk.  NewFilesystemStorage leaves an empty cache
\* directory.
FirstDisk == [names |-> <<>>, files |-> <<>>]

\* No response has been written.
NoResponse == [op |-> "none", arg |-> <<>>, err |-> "nil", hit |-> FALSE,
               val |-> [kind |-> "none"]]

\* An upstream client in no call: the hostname asked for, uc.baseURL, and
\* what the call in progress has got so far.
IdleClient(hostname, base) ==
    [ hostname |-> hostname, baseURL |-> base,
      pc |-> "idle", op |-> "none",
      offer |-> <<>>,     \* FetchIndex: the versions upstream offers, as listed
      answers |-> <<>>,   \* FetchVersion, mirror protocol: the answers
      seen |-> <<>>,      \* the outcome of each platform probe so far
      archives |-> <<>>,  \* the archives map of the probe loop
      versions |-> {},    \* the keys of IndexResponse.Versions
      url |-> <<>>,       \* the URL of the last request to upstream
      requests |-> 0,     \* the requests the call has sent to upstream
      err |-> "nil", status |-> 0 ]

\* No storage call is looked at, no response kept, no client on its own.
StorageAside ==
    /\ disk = FirstDisk
    /\ calls = [t \in Threads |-> IdleCall]
    /\ ncalls = 0
    /\ last = NoResponse
    /\ client = IdleClient(Hostname, <<>>)

\* A goroutine that serves no request.
IdleReq ==
    [ pc |-> "idle", op |-> "none", arg |-> <<>>,
      tail |-> <<>>,      \* the rest of the request path after the provider
      data |-> <<>>,      \* the manifest as stored or fetched (raw)
      todo |-> {},        \* platforms the rewrite loop has not visited
      out |-> <<>>,       \* the manifest being rewritten
      url |-> <<>>,       \* upstream URL of the archive
      body |-> "",        \* archive bytes read from upstream
      err |-> "nil", status |-> 0, val |-> NoData,
      nreq |-> 0,         \* upstream requests issued by this request
      answers |-> <<>>,   \* a metadata fetch that ended the request: what
                          \* upstream answered, or would have, attempt by attempt
      hit |-> FALSE,      \* the requested blob was in storage at the start
      readErr |-> "nil",  \* the error of the storage lookup at the start
      cancelled |-> FALSE,\* the context of the request is done
      orphan |-> FALSE,   \* the archive had no upstream URL in storage
      metrics |-> <<>>,   \* the calls the handler made to h.metrics
      start |-> {} ]      \* GetVersion: what storage held of the archives
                          \* at the start (see ArchiveFacts)

\* The status the handlers of the edge answer with: IndexHandler and
\* VersionHandlerWithParams compare with mirror.ErrNotFound,
\* ArchiveHandlerForProvider with io.EOF.
HandlerStatus(op, err) ==
    IF err = "nil" THEN 200
    ELSE IF op \in {"index", "version"} /\ err = "ErrNotFound" THEN 404
    ELSE IF op = "archive" /\ err = "EOF" THEN 404
    ELSE 500

\* The calls a handler makes to h.metrics once the mirror has returned:
\* a miss for the not-found error, an error for any other, and for a
\* success a hit and an upstream request with http.StatusOK.
HandlerMetrics(op, err) ==
    IF op \notin {"index", "version", "archive"} THEN <<>>
    ELSE IF err = "nil"
    THEN << <<"RecordCacheHit", op>>, <<"RecordUpstreamRequest", "200", op>> >>
    ELSE IF HandlerStatus(op, err) = 404 THEN << <<"RecordCacheMiss", op>> >>
    ELSE << <<"RecordError", op \o "_handler", "fetch_failed">> >>

\* The request is answered: the response is on its way to the client.
Finish(r, err, val) ==
    [r EXCEPT !.pc = "done", !.err = err, !.val = val,
              !.status = HandlerStatus(r.op, err),
              !.metrics = HandlerMetrics(r.op, err),
              !.todo = {}, !.out = <<>>]

\* A finished request is looked at before anything else happens: writing
\* the response touches nothing the other requests see.
NoneDone == \A p \in Procs : req[p].pc # "done"

\* The request of goroutine p stands at `pc`.
At(p, pc) == NoneDone /\ req[p].pc = pc

\* A new request is served by the first goroutine that serves none (which
\* goroutine serves it makes no difference to the program).
Free(p) ==
    /\ NoneDone
    /\ started < MaxRequests
    /\ req[p].pc = "idle"
    /\ \A q \in Procs : q < p => req[q].pc # "idle"

\* A write to the cache whose error ends the request.
Checked(ok, r) ==
    IF ok THEN r
    ELSE [r EXCEPT !.pc = "done", !.err = "other", !.val = NoData,
                   !.status = 500, !.todo = {}, !.out = <<>>]

\* `_ = m.storage.Put...`: the error of the write is dropped, and the
\* request goes on as r.
Discard(ok, r) == r

\* A storage write succeeds (ok) or fails and writes nothing.
Written(ok) ==
    /\ ok \/ failures < MaxFailures
    /\ failures' = IF ok THEN failures ELSE failures + 1

\* The h1 sidecars in storage f, and the archive files that are no ZIP.
ArchiveFacts(f) ==
    {k \in DOMAIN f : \/ HasSuffix(k, <<".h1">>)
                      \/ f[k].kind = "archive" /\ ~IsZip(f[k].body)}

Begin(op, arg) == [IdleReq EXCEPT !.op = op, !.arg = arg]

Init ==
    /\ fs = <<>>
    /\ upstream \in Upstreams
    /\ req = [p \in Procs |-> IdleReq]
    /\ started = 0
    /\ failures = 0
    /\ baseURL = <<"http:", "/", "/", "mirror.example", "/">>
    /\ StorageAside

(***************************************************************************)
(* Mirror.GetIndex, behind IndexHandler.                                   *)
(***************************************************************************)
\* A lookup whose result is never taken for a hit (C2 tells it from CacheHit).
NeverHit(c) == FALSE

\* `err == nil` after the storage lookup: the blob is served from the cache.
CacheHit(c) == c.err = "nil"

\* The handler calls GetIndex, which looks the index up in storage.
\* IndexHandler and Mirror.GetIndex up to the cache test, c being what
\* storage.GetIndex returned.
IndexLookup(p, tail, c) ==
    /\ Free(p)
    /\ LET r == [Begin("index", <<"index", ".json">>) EXCEPT !.hit = c.err = "nil",
                                                            !.readErr = c.err,
                                                            !.tail = tail]
       IN  req' = [req EXCEPT ![p] =
                IF CacheHit(c) THEN Finish(r, "nil", c.data)
                ELSE [r EXCEPT !.pc = "gi_fill"]]
    /\ started' = started + 1
    /\ UNCHANGED <<fs, upstream, failures, baseURL, aside>>

IndexHandler(p, tail) ==
    IndexLookup(p, tail, StorageGetIndex(fs, Hostname, Namespace, ProviderType))

\* upstream.FetchIndex, json.Marshal of the response and storage.PutIndex,
\* whose failure is ignored.
GetIndexFill(p) ==
    /\ At(p, "gi_fill")
    /\ \E answers \in AnswerSeqs, ok \in BOOLEAN :
         LET r == FetchMetadata(fetch(answers), IndexBlob(upstream.index))
             q == [req[p] EXCEPT !.nreq = @ + r.requests]
         IN  IF r.err # "nil"
             THEN /\ ok
                  /\ req' = [req EXCEPT ![p] =
                         Finish([q EXCEPT !.answers = answers], r.err, NoData)]
                  /\ UNCHANGED <<fs, failures>>
             ELSE /\ Written(ok)
                  /\ fs' = IF ok
                           THEN StoragePutIndex(fs, Hostname, Namespace,
                                                ProviderType, r.response)
                           ELSE fs
                  /\ req' = [req EXCEPT ![p] =
                         Discard(ok, Finish(q, "nil", r.response))]
    /\ UNCHANGED <<upstream, started, baseURL, aside>>

(***************************************************************************)
(* Mirror.GetVersion, behind VersionHandlerWithParams, and the rewrite     *)
(* step rewriteArchiveURLsWithH1.                                          *)
(***************************************************************************)
\* The local path of an archive of the provider.
LocalPath(archiveURL) ==
    ProviderPath(Hostname, Namespace, ProviderType, extractFilename(archiveURL))

\* The URL without the base (C4 tells it from RewrittenURL).
PathOnly(base, path) == <<Slash>> \o path

\* fmt.Sprintf("%s/%s", strings.TrimSuffix(m.baseURL, "/"), archivePath)
RewrittenURL(base, path) == TrimSuffix(base, <<Slash>>) \o <<Slash>> \o path

\* The rewrite step starts: json.Unmarshal of the data, then the loop.
StartRewrite(r, archives) ==
    IF DOMAIN archives = {}
    THEN Finish([r EXCEPT !.data = archives], "nil", ManifestBlob(archives))
    ELSE [r EXCEPT !.pc = "rw", !.data = archives, !.out = archives,
                   !.todo = DOMAIN archives]

\* VersionHandlerWithParams and Mirror.GetVersion up to the cache test, c
\* being what storage.GetVersion returned.
VersionLookup(p, tail, version, c) ==
    /\ Free(p)
    /\ LET r == [Begin("version", version) EXCEPT !.hit = c.err = "nil",
                                                  !.readErr = c.err,
                                                  !.tail = tail,
                                                  !.start = ArchiveFacts(fs)]
       IN  req' = [req EXCEPT ![p] =
                IF CacheHit(c) THEN StartRewrite(r, c.data.archives)
                ELSE [r EXCEPT !.pc = "gv_fill"]]
    /\ started' = started + 1
    /\ UNCHANGED <<fs, upstream, failures, baseURL, aside>>

VersionHandlerWithParams(p, tail, version) ==
    VersionLookup(p, tail, version,
        StorageGetVersion(fs, Hostname, Namespace, ProviderType, version))

\* The manifest with its URLs rewritten, as data to store (C3 tells it from
\* VersionToStore).
VersionRewritten(archives) ==
    ManifestBlob([pl \in DOMAIN archives |->
        [archives[pl] EXCEPT !.url = RewrittenURL(baseURL, LocalPath(@))]])

\* The data GetVersion hands to storage.PutVersion: the serialization of the
\* upstream response, made before the rewrite step.
VersionToStore(archives) == ManifestBlob(archives)

\* upstream.FetchVersion, json.Marshal of the response and
\* storage.PutVersion, whose failure is ignored; the rewrite step follows.
GetVersionFill(p) ==
    /\ At(p, "gv_fill")
    /\ \E answers \in AnswerSeqs, ok \in BOOLEAN :
         LET r == FetchMetadata(fetch(answers), ManifestBlob(upstream.manifest))
             q == [req[p] EXCEPT !.nreq = @ + r.requests]
         IN  IF r.err # "nil"
             THEN /\ ok
                  /\ req' = [req EXCEPT ![p] =
                         Finish([q EXCEPT !.answers = answers], r.err, NoData)]
                  /\ UNCHANGED <<fs, failures>>
             ELSE /\ Written(ok)
                  /\ fs' = IF ok
                           THEN StoragePutVersion(fs, Hostname, Namespace,
                                    ProviderType, q.arg,
                                    VersionToStore(r.response.archives))
                           ELSE fs
                  /\ req' = [req EXCEPT ![p] =
                         Discard(ok, StartRewrite(q, r.response.archives))]
    /\ UNCHANGED <<upstream, started, baseURL, aside>>

\* A loop that finds no hash (C5 tells it from hasH1).
NoH1(hashes) == FALSE

\* The loop over archive.Hashes: some hash has the prefix "h1:".
hasH1(hashes) == \E i \in 1..Len(hashes) : HasPrefix(hashes[i], <<"h1:">>)

\* The stored hash put first (C7 tells it from WithH1).
H1First(hashes, h) ==
    IF h.err = "nil" /\ h.str # <<>> /\ ~hasH1(hashes)
    THEN <<h.str>> \o hashes
    ELSE hashes

\* The hashes of an archive after the lookup h of its stored h1 hash.
WithH1(hashes, h) ==
    IF h.err = "nil" /\ h.str # <<>> /\ ~hasH1(hashes)
    THEN Append(hashes, h.str)
    ELSE hashes

\* The rewrite loop is done with `platform`.
NextPlatform(r, platform, out) ==
    IF r.todo = {platform}
    THEN Finish([r EXCEPT !.out = out], "nil", ManifestBlob(out))
    ELSE [r EXCEPT !.out = out, !.todo = @ \ {platform}]

\* One round of the loop over response.Archives, in the order the map
\* yields.  An archive without URL is passed over; for any other,
\* storage.PutUpstreamURL (failure ignored), the new URL, and
\* storage.GetH1Hash.  The two storage calls touch different files, so a
\* step of another request between them can be moved before or after both.
RewriteArchive(p) ==
    /\ At(p, "rw")
    /\ \E platform \in req[p].todo, ok \in BOOLEAN :
         LET r == req[p]
             archive == r.out[platform]
             archivePth == LocalPath(archive.url)
             stored == IF ok
                       THEN StoragePutUpstreamURL(fs, archivePth, archive.url)
                       ELSE fs
             h == StorageGetH1Hash(stored, archivePth)
             rewritten == [url |-> RewrittenURL(baseURL, archivePth),
                           hashes |-> WithH1(archive.hashes, h)]
         IN  IF archive.url = <<>>
             THEN /\ ok
                  /\ UNCHANGED <<fs, failures>>
                  /\ req' = [req EXCEPT ![p] = NextPlatform(r, platform, r.out)]
             ELSE /\ Written(ok)
                  /\ fs' = stored
                  /\ req' = [req EXCEPT ![p] =
                         Discard(ok, NextPlatform(r, platform,
                                      [r.out EXCEPT ![platform] = rewritten]))]
    /\ UNCHANGED <<upstream, started, baseURL, aside>>

(***************************************************************************)
(* Mirror.GetArchive, behind ArchiveHandlerForProvider.                    *)
(***************************************************************************)
\* ArchiveHandlerForProvider and Mirror.GetArchive up to the cache test, c
\* being what storage.GetArchive returned.
ArchiveLookup(p, tail, filename, c) ==
    /\ Free(p)
    /\ LET path == ProviderPath(Hostname, Namespace, ProviderType, filename)
           r == [Begin("archive", path) EXCEPT !.hit = c.err = "nil",
                                               !.readErr = c.err,
                                               !.tail = tail]
       IN  req' = [req EXCEPT ![p] =
                IF CacheHit(c) THEN Finish(r, "nil", c.data)
                ELSE [r EXCEPT !.pc = "ga_url"]]
    /\ started' = started + 1
    /\ UNCHANGED <<fs, upstream, failures, baseURL, aside>>

ArchiveHandlerForProvider(p, tail, filename) ==
    ArchiveLookup(p, tail, filename,
        StorageGetArchive(fs, ProviderPath(Hostname, Namespace, ProviderType,
                                           filename)))

\* The test without `upstreamURL == ""` (C1 and C10 tell it from
\* UpstreamURLKnown).
NoReadError(u) == u.err = "nil"

\* `err != nil || upstreamURL == ""` does not hold: there is a URL to fetch.
UpstreamURLKnown(u) == u.err = "nil" /\ u.str # <<>>

\* On a cache miss: storage.GetUpstreamURL, then upstream.FetchArchive,
\* io.ReadAll and computeH1Hash.
GetArchiveFetch(p) ==
    /\ At(p, "ga_url")
    /\ \E answer \in Answers :
         LET u == StorageGetUpstreamURL(fs, req[p].arg)
             a == FetchArchive(answer, upstream.body)
             r == [req[p] EXCEPT !.orphan = ~(u.err = "nil" /\ u.str # <<>>)]
             q == [r EXCEPT !.nreq = @ + 1, !.url = u.str]
         IN  req' = [req EXCEPT ![p] =
                  IF ~UpstreamURLKnown(u) THEN Finish(r, "other", NoData)
                  ELSE IF a.err # "nil" THEN Finish(q, a.err, NoData)
                  ELSE [q EXCEPT !.body = a.body,
                                 !.pc = IF computeH1Hash(a.body).err = "nil"
                                        THEN "ga_h1" ELSE "ga_put"]]
    /\ UNCHANGED <<fs, upstream, started, failures, baseURL, aside>>

\* A write whose error is not looked at.
Unchecked(ok, r) == r

\* `if err := ...; err != nil { return nil, fmt.Errorf(...) }`: the error
\* of the write ends the request.
Must(ok, r) == IF ok THEN r ELSE Finish(r, "other", NoData)

\* storage.PutH1Hash of the computed hash, whose failure is ignored.
GetArchivePutH1(p) ==
    /\ At(p, "ga_h1")
    /\ \E ok \in BOOLEAN :
         /\ Written(ok)
         /\ fs' = IF ok
                  THEN StoragePutH1Hash(fs, req[p].arg,
                                        computeH1Hash(req[p].body).hash)
                  ELSE fs
         /\ req' = [req EXCEPT ![p] = Discard(ok, [req[p] EXCEPT !.pc = "ga_put"])]
    /\ UNCHANGED <<upstream, started, baseURL, aside>>

\* storage.PutArchive, whose failure fails the request.
GetArchivePut(p) ==
    /\ At(p, "ga_put")
    /\ \E ok \in BOOLEAN :
         /\ Written(ok)
         /\ fs' = IF ok
                  THEN StoragePutArchive(fs, req[p].arg, ArchiveBlob(req[p].body))
                  ELSE fs
         /\ req' = [req EXCEPT ![p] =
                Must(ok, [req[p] EXCEPT !.pc = "ga_reopen"])]
    /\ UNCHANGED <<upstream, started, baseURL, aside>>

\* `return m.storage.GetArchive(ctx, archivePath)`: the cached file.
GetArchiveReopen(p) ==
    /\ At(p, "ga_reopen")
    /\ LET c == StorageGetArchive(fs, req[p].arg)
       IN  req' = [req EXCEPT ![p] = Finish(req[p], c.err, c.data)]
    /\ UNCHANGED <<fs, upstream, started, failures, baseURL, aside>>

(***************************************************************************)
(* MetadataHandler: the handler a request's tail selects.                  *)
(***************************************************************************)
Tails ==
    {<<"index", ".json">>, <<"readme">>, <<"index", ".json", ".sig">>}
    \cup {v \o <<".json">> : v \in Versions}
    \cup ArchiveTails

\* A MetadataHandler without the test for index.json.
MetadataHandlerNoIndex(tail) ==
    IF HasSuffix(tail, <<".json">>) THEN "VersionHandlerWithParams"
    ELSE IF HasSuffix(tail, <<".zip">>) THEN "ArchiveHandlerForProvider"
    ELSE "NotFound"

MetadataHandler(tail) ==
    IF tail = <<"index", ".json">> THEN "IndexHandler"
    ELSE IF HasSuffix(tail, <<".json">>) THEN "VersionHandlerWithParams"
    ELSE IF HasSuffix(tail, <<".zip">>) THEN "ArchiveHandlerForProvider"
    ELSE "NotFound"

\* A tail that is no index, version or archive: 404 without the mirror.
NotFoundHandler(p, tail) ==
    /\ Free(p)
    /\ req' = [req EXCEPT ![p] =
           [Begin("none", <<>>) EXCEPT !.pc = "done", !.status = 404,
                                       !.tail = tail]]
    /\ started' = started + 1
    /\ UNCHANGED <<fs, upstream, failures, baseURL, aside>>

\* The response has been written to the client; the goroutine ends.
Respond(p) ==
    /\ req[p].pc = "done"
    /\ req' = [req EXCEPT ![p] = IdleReq]
    /\ UNCHANGED <<fs, upstream, started, failures, baseURL, aside>>

(***************************************************************************)
(* The upstream registry changes what it serves.                           *)
(***************************************************************************)
UpstreamChange ==
    /\ NoneDone
    /\ upstream' \in Upstreams
    /\ upstream' # upstream
    /\ UNCHANGED <<fs, req, started, failures, baseURL, aside>>

Next ==
    \/ \E p \in Procs, tail \in Tails :
         /\ MetadataHandler(tail) = "IndexHandler"
         /\ IndexHandler(p, tail)
    \/ \E p \in Procs, tail \in Tails :
         /\ MetadataHandler(tail) = "VersionHandlerWithParams"
         /\ VersionHandlerWithParams(p, tail, TrimSuffix(tail, <<".json">>))
    \/ \E p \in Procs, tail \in Tails :
         /\ MetadataHandler(tail) = "ArchiveHandlerForProvider"
         /\ ArchiveHandlerForProvider(p, tail, tail)
    \/ \E p \in Procs, tail \in Tails :
         /\ MetadataHandler(tail) = "NotFound"
         /\ NotFoundHandler(p, tail)
    \/ \E p \in Procs : GetIndexFill(p)
    \/ \E p \in Procs : GetVersionFill(p)
    \/ \E p \in Procs : RewriteArchive(p)
    \/ \E p \in Procs : GetArchiveFetch(p)
    \/ \E p \in Procs : GetArchivePutH1(p)
    \/ \E p \in Procs : GetArchivePut(p)
    \/ \E p \in Procs : GetArchiveReopen(p)
    \/ \E p \in Procs : Respond(p)
    \/ UpstreamChange

Spec == Init /\ [][Next]_vars

(***************************************************************************)
(* The rewrite step on its own: one request at a time asks for the         *)
(* manifest, over a cache directory that earlier runs have left h1         *)
(* sidecars in, for every base URL and every manifest of RewriteUpstreams. *)
(***************************************************************************)
\* The cache directories NewFilesystemStorage may find: h1 sidecars of
\* archives served before.
EarlierCaches ==
    LET sidecar(name) ==
            h1HashPath(ProviderPath(Hostname, Namespace, ProviderType, name))
        files == {sidecar(<<"x", ".zip">>), sidecar(<<"y", ".zip">>)}
    IN  { [k \in ks |-> TextBlob(computeH1Hash("zip").hash)] :
            ks \in SUBSET files }

InitRewrite ==
    /\ fs \in EarlierCaches
    /\ upstream \in RewriteUpstreams
    /\ req = [p \in Procs |-> IdleReq]
    /\ started = 0
    /\ failures = 0
    /\ baseURL \in BaseURLs
    /\ StorageAside

\* No other goroutine serves a request.
Alone(p) == \A q \in Procs \ {p} : req[q].pc = "idle"

NextRewrite ==
    \/ \E p \in Procs, tail \in Tails :
         /\ Alone(p)
         /\ MetadataHandler(tail) = "VersionHandlerWithParams"
         /\ VersionHandlerWithParams(p, tail, TrimSuffix(tail, <<".json">>))
    \/ \E p \in Procs : Alone(p) /\ GetVersionFill(p)
    \/ \E p \in Procs : Alone(p) /\ RewriteArchive(p)
    \/ \E p \in Procs : Alone(p) /\ Respond(p)

SpecRewrite == InitRewrite /\ [][NextRewrite]_vars

(***************************************************************************)
(* Requests for the manifest one after the other, each response kept       *)
(* until the next, and the rewrite step applied to a manifest it has       *)
(* produced.                                                               *)
(***************************************************************************)
\* An archive URL without a path.
UrlNoPath == <<"https:", "/", "/", "origin.example">>

RepeatUpstreams ==
    { [index |-> {<<"5.0.0">>}, body |-> "zip", manifest |-> m] :
        m \in [Platforms -> RewriteArchives \cup {Archive(UrlNoPath, <<HashZh>>)}] }

InitRepeat ==
    /\ fs \in EarlierCaches
    /\ upstream \in RepeatUpstreams
    /\ req = [p \in Procs |-> IdleReq]
    /\ started = 0
    /\ failures = 0
    /\ baseURL \in BaseURLs
    /\ StorageAside

\* The response has been written to the client, who keeps it.
RespondKeep(p) ==
    /\ req[p].pc = "done"
    /\ req' = [req EXCEPT ![p] = IdleReq]
    /\ last' = [op |-> req[p].op, arg |-> req[p].arg, err |-> req[p].err,
                hit |-> req[p].hit, val |-> req[p].val]
    /\ UNCHANGED <<fs, upstream, started, failures, baseURL, storageVars, client>>

\* rewriteArchiveURLsWithH1 on the manifest of the last response, for the
\* same provider.
rewriteArchiveURLsWithH1(p) ==
    /\ Free(p)
    /\ last.op = "version" /\ last.err = "nil"
    /\ req' = [req EXCEPT ![p] =
                 StartRewrite(Begin("rewrite", last.arg), last.val.archives)]
    /\ started' = started + 1
    /\ UNCHANGED <<fs, upstream, failures, baseURL, aside>>

NextRepeat ==
    \/ \E p \in Procs, tail \in Tails :
         /\ Alone(p)
         /\ MetadataHandler(tail) = "VersionHandlerWithParams"
         /\ VersionHandlerWithParams(p, tail, TrimSuffix(tail, <<".json">>))
    \/ \E p \in Procs : Alone(p) /\ GetVersionFill(p)
    \/ \E p \in Procs : Alone(p) /\ RewriteArchive(p)
    \/ \E p \in Procs : Alone(p) /\ rewriteArchiveURLsWithH1(p)
    \/ \E p \in Procs : Alone(p) /\ RespondKeep(p)

SpecRepeat == InitRepeat /\ [][NextRepeat]_vars

(***************************************************************************)
(* Properties.                                                             *)
(***************************************************************************)
\* Goroutine p has finished a request of kind op; it succeeded.
Done(p, op) == req[p].pc = "done" /\ req[p].op = op

Served(p, op) == Done(p, op) /\ req[p].err = "nil"

\* The archive paths the edge hands to Mirror.GetArchive.
ArchivePaths ==
    {ProviderPath(Hostname, Namespace, ProviderType, tail) : tail \in ArchiveTails}

StoredArchive(f, path) == StorageGetArchive(f, path).err = "nil"

C1_Sidecar ==
    /\ \A k \in DOMAIN fs :
         fs[k].kind = "archive" => \E path \in ArchivePaths : k = archivePath(path)
    /\ \A path \in ArchivePaths :
         StoredArchive(fs, path)
           => LET u == StorageGetUpstreamURL(fs, path)
              IN  u.err = "nil" /\ u.str # <<>>

C1_SidecarFirst ==
    \A path \in ArchivePaths :
      ~StoredArchive(fs, path) /\ StoredArchive(fs', path)
        => LET u == StorageGetUpstreamURL(fs, path)
           IN  u.err = "nil" /\ u.str # <<>>

\* C1: in every reachable state, an archive present in storage under path p
\* has a non-empty upstream-URL sidecar (GetUpstreamURL(p) returns a
\* non-empty string), and the sidecar was in storage before the step that
\* wrote the archive body.
C1_SidecarBeforeArchive == []C1_Sidecar /\ [][C1_SidecarFirst]_vars

\* An archive request has filled the cache from upstream.
C1_Witness ==
    \E p \in Procs :
      /\ Served(p, "archive") /\ ~req[p].hit
      /\ StoredArchive(fs, req[p].arg)
      /\ StorageGetUpstreamURL(fs, req[p].arg).str = req[p].url

\* The manifest a finished GetVersion worked on (as stored or as fetched)
\* and the one it returned.
Raw(p) == req[p].data

Output(p) == req[p].val.archives

\* The h1 hashes computeH1Hash can have stored.
H1Hashes ==
    {computeH1Hash(body).hash : body \in {b \in Bodies : computeH1Hash(b).err = "nil"}}

\* `out` is made from the manifest `raw`, the base URL and stored h1 hashes.
DerivedFrom(raw, out) ==
    /\ DOMAIN out = DOMAIN raw
    /\ \A pl \in DOMAIN raw :
         /\ out[pl].url = IF raw[pl].url = <<>> THEN <<>>
                          ELSE RewrittenURL(baseURL, LocalPath(raw[pl].url))
         /\ \/ out[pl].hashes = raw[pl].hashes
            \/ \E h \in H1Hashes : out[pl].hashes = Append(raw[pl].hashes, h)

C2_Result ==
    \A p \in Procs :
      req[p].pc = "done" /\ req[p].hit
        => /\ req[p].nreq = 0
           /\ req[p].err = "nil"
           /\ req[p].op = "index"
                => req[p].val = StorageGetIndex(fs, Hostname, Namespace,
                                                ProviderType).data
           /\ req[p].op = "archive"
                => req[p].val = StorageGetArchive(fs, req[p].arg).data
           /\ req[p].op = "version" => DerivedFrom(Raw(p), Output(p))

C2_Start ==
    \A p \in Procs :
      req[p].pc = "idle" /\ req'[p].op = "version" /\ req'[p].hit
        => req'[p].data = StorageGetVersion(fs, Hostname, Namespace, ProviderType,
                                            req'[p].arg).data.archives

\* C2: for index, manifest and archive alike, a request that finds the blob
\* of its key in storage when it starts issues no upstream request and
\* succeeds with a result made from the stored blob alone: the index or the
\* archive as stored, the manifest as the rewrite of the stored one, whatever
\* upstream serves by then.
C2_ServedFromCache == []C2_Result /\ [][C2_Start]_vars

\* A manifest served from the cache while upstream serves another one.
C2_Witness ==
    \E p \in Procs :
      /\ Served(p, "version") /\ req[p].hit
      /\ upstream.manifest # Raw(p)
      /\ req[p].nreq = 0

UpstreamManifests == {u.manifest : u \in Upstreams}

\* C3: in every reachable state, every manifest in storage is a manifest as
\* upstream served it: no archive URL in it points to the mirror and no
\* hash in it was added by the mirror.
C3_StoredManifestRaw ==
    \A k \in DOMAIN fs :
      fs[k].kind = "manifest"
        => /\ fs[k].archives \in UpstreamManifests
           /\ \A pl \in DOMAIN fs[k].archives :
                ~HasPrefix(fs[k].archives[pl].url, TrimSuffix(baseURL, <<Slash>>))

\* A request has fetched and stored the manifest and returned another one:
\* URLs rewritten, an h1 hash added.
C3_Witness ==
    \E p \in Procs :
      /\ Served(p, "version") /\ ~req[p].hit
      /\ StorageGetVersion(fs, Hostname, Namespace, ProviderType,
                           req[p].arg).data = ManifestBlob(Raw(p))
      /\ \E pl \in DOMAIN Raw(p) :
           /\ Output(p)[pl].url # Raw(p)[pl].url
           /\ Output(p)[pl].hashes # Raw(p)[pl].hashes

\* Every entry of every manifest returned has a URL that starts with the
\* base URL: C4 as the specification words it, entries without URL included.
C4_Original ==
    \A p \in Procs :
      Served(p, "version")
        => \A pl \in DOMAIN Output(p) : HasPrefix(Output(p)[pl].url, baseURL)

\* C4: in every manifest GetVersion returns, for every base URL (with or
\* without a trailing slash), the URL of an entry whose upstream URL is not
\* empty starts with the base URL; an entry whose upstream URL is empty
\* keeps the empty URL.
C4_RewrittenURLs ==
    \A p \in Procs :
      Served(p, "version")
        => \A pl \in DOMAIN Output(p) :
             IF Raw(p)[pl].url = <<>>
             THEN Output(p)[pl].url = <<>>
             ELSE HasPrefix(Output(p)[pl].url, baseURL)

\* A manifest returned under a base URL with a trailing slash, one entry
\* rewritten from a URL with a query and one left without URL.
C4_Witness ==
    \E p \in Procs :
      /\ Served(p, "version")
      /\ HasSuffix(baseURL, <<Slash>>)
      /\ \E pl \in DOMAIN Raw(p) : Raw(p)[pl].url = UrlY
      /\ \E pl \in DOMAIN Raw(p) : Raw(p)[pl].url = <<>>

H1Count(hashes) ==
    Cardinality({i \in 1..Len(hashes) : HasPrefix(hashes[i], <<"h1:">>)})

\* No entry of a manifest returned has two h1 hashes: C5 as the
\* specification words it, whatever upstream's hashes are.
C5_Original ==
    \A p \in Procs :
      Served(p, "version")
        => \A pl \in DOMAIN Output(p) : H1Count(Output(p)[pl].hashes) <= 1

\* C5: in every manifest GetVersion returns, the hashes of an entry are the
\* upstream hashes, followed by at most one h1 hash of the mirror and by
\* none when an upstream hash is an h1 hash; so an entry has at most one h1
\* hash unless upstream gave it several.
C5_AtMostOneAdded ==
    \A p \in Procs :
      Served(p, "version")
        => \A pl \in DOMAIN Output(p) :
             LET up == Raw(p)[pl].hashes
                 out == Output(p)[pl].hashes
             IN  /\ \/ out = up
                    \/ H1Count(up) = 0 /\ \E h \in H1Hashes : out = Append(up, h)
                 /\ H1Count(up) <= 1 => H1Count(out) <= 1

\* An entry that came with one h1 hash from upstream and has an h1 sidecar
\* in storage is returned with the one hash.
C5_Witness ==
    \E p \in Procs :
      /\ Served(p, "version")
      /\ \E pl \in DOMAIN Raw(p) :
           /\ Raw(p)[pl].url # <<>>
           /\ H1Count(Raw(p)[pl].hashes) = 1
           /\ StorageGetH1Hash(fs, LocalPath(Raw(p)[pl].url)).str # <<>>
           /\ H1Count(Output(p)[pl].hashes) = 1

\* C6 as the specification words it: after a GetVersion that succeeded, no
\* storage write having failed, the upstream-URL sidecar under the local
\* path of every entry with a URL holds that entry's upstream URL.
C6_Original ==
    \A p \in Procs :
      Served(p, "version") /\ failures = 0
        => \A pl \in DOMAIN Raw(p) :
             Raw(p)[pl].url # <<>>
               => StorageGetUpstreamURL(fs, LocalPath(Raw(p)[pl].url)).str
                    = Raw(p)[pl].url

\* The entries of the manifest request p worked on that have a URL.
Entries(p) == {pl \in DOMAIN Raw(p) : Raw(p)[pl].url # <<>>}

\* C7: once GetArchive has stored the h1 hash of path p, every GetVersion
\* that starts later returns, for an entry that maps to p and whose upstream
\* hashes hold no h1 hash, the upstream hashes in their order followed by
\* the stored h1 hash.
C7_H1Appended ==
    \A p \in Procs :
      Served(p, "version")
        => \A pl \in Entries(p) :
             LET path == LocalPath(Raw(p)[pl].url)
             IN  h1HashPath(path) \in req[p].start /\ ~hasH1(Raw(p)[pl].hashes)
                   => Output(p)[pl].hashes
                        = Append(Raw(p)[pl].hashes, StorageGetH1Hash(fs, path).str)

\* A manifest returned with the stored h1 hash after an upstream hash.
C7_Witness ==
    \E p \in Procs :
      /\ Served(p, "version")
      /\ \E pl \in Entries(p) :
           /\ h1HashPath(LocalPath(Raw(p)[pl].url)) \in req[p].start
           /\ Raw(p)[pl].hashes = <<HashZh>>
           /\ Output(p)[pl].hashes = <<HashZh, computeH1Hash("zip").hash>>

\* C8 as the specification words it: when the archive stored under p is
\* what upstream served and no ZIP, a GetVersion that starts afterwards adds
\* no h1 hash to an entry that maps to p (looked at when no other request
\* is being served and the archive is still the same).
C8_Original ==
    \A p \in Procs :
      Served(p, "version") /\ Alone(p)
        => \A pl \in Entries(p) :
             LET path == LocalPath(Raw(p)[pl].url)
                 junk == /\ archivePath(path) \in req[p].start
                         /\ ~IsZip(StorageGetArchive(fs, path).data.body)
             IN  junk => Output(p)[pl].hashes = Raw(p)[pl].hashes

\* C9 as the specification words it: an archive request that finds neither
\* the archive nor its upstream URL in storage is answered with 404.
C9_Original ==
    \A p \in Procs :
      Done(p, "archive") /\ req[p].orphan => req[p].status = 404

\* A step of an archive request that found no upstream URL.
OrphanStep(p) ==
    /\ req'[p] # req[p]
    /\ req'[p].op = "archive"
    /\ req'[p].pc = "ga_url" \/ req'[p].orphan

\* C10: a GetArchive that misses the cache and finds no upstream URL in
\* storage fails at once: it issues no upstream request, and neither its
\* lookup of the archive nor its lookup of the URL changes storage.
C10_OrphanFails ==
    [][\A p \in Procs :
         OrphanStep(p)
           => /\ fs' = fs
              /\ req'[p].nreq = 0
              /\ req[p].pc = "ga_url" /\ StorageGetUpstreamURL(fs, req[p].arg).str = <<>>
                   => Done(p, "archive")' /\ req'[p].err # "nil"]_vars

\* An archive request has failed for want of an upstream URL.
C10_Witness ==
    \E p \in Procs :
      /\ Done(p, "archive") /\ req[p].orphan
      /\ req[p].err # "nil" /\ req[p].nreq = 0
      /\ ~StoredArchive(fs, req[p].arg)

\* Upstream answers the first i-1 attempts of a fetch with failures that
\* are retried and attempt i with `status`.
FirstAnswer(answers, i, status) ==
    /\ i \in DOMAIN answers
    /\ answers[i] = status
    /\ \A j \in 1..(i - 1) : answers[j] = 0 \/ answers[j] >= 500

\* Goroutine p ends its GetIndex in this step, after a cache miss.
IndexFillEnds(p) == req[p].pc = "gi_fill" /\ Done(p, "index")'

\* C11: when the index is not in storage and upstream answers the index
\* request with 404, GetIndex returns ErrNotFound, the handler answers 404,
\* no request follows the one answered 404, and the step writes nothing.
C11_IndexNotFound ==
    [][\A p \in Procs :
         IndexFillEnds(p) /\ (\E i \in 1..(MaxRetries + 1) :
                                  FirstAnswer(req'[p].answers, i, 404))
           => /\ req'[p].err = "ErrNotFound"
              /\ req'[p].status = 404
              /\ \A i \in 1..(MaxRetries + 1) :
                   FirstAnswer(req'[p].answers, i, 404) => req'[p].nreq = i
              /\ fs' = fs]_vars

\* Upstream answered the first index request with 404, in a state where the
\* index has never been stored.
C11_Witness ==
    \E p \in Procs :
      /\ Done(p, "index") /\ ~req[p].hit
      /\ FirstAnswer(req[p].answers, 1, 404)
      /\ req[p].nreq = 1 /\ req[p].status = 404
      /\ StorageGetIndex(fs, Hostname, Namespace, ProviderType).err = "EOF"

\* C12: when the index is not in storage and upstream answers every attempt
\* with 500, the fetch issues MaxRetries + 1 requests, GetIndex fails, the
\* handler answers 500 and the step writes nothing.
C12_IndexServerError ==
    [][\A p \in Procs :
         IndexFillEnds(p) /\ req'[p].answers = [i \in 1..(MaxRetries + 1) |-> 500]
           => /\ req'[p].nreq = MaxRetries + 1
              /\ req'[p].err \notin {"nil", "ErrNotFound"}
              /\ req'[p].status = 500
              /\ fs' = fs]_vars

\* Upstream answered every attempt of an index fetch with 500.
C12_Witness ==
    \E p \in Procs :
      /\ Done(p, "index") /\ ~req[p].hit
      /\ req[p].answers = [i \in 1..(MaxRetries + 1) |-> 500]
      /\ req[p].nreq = MaxRetries + 1 /\ req[p].status = 500

(***************************************************************************)
(* FilesystemStorage, file by file.  The calls of several threads          *)
(* interleave at the system calls: creating the temporary file, each       *)
(* write, the rename, the open, each read.  Directories are not kept: a    *)
(* directory is there when a file lies below it (os.MkdirAll), and the     *)
(* cache directory is there from the constructor.                          *)
(***************************************************************************)

\* The cache directory or a path below it.
Under(path) == path = CacheDir \/ HasPrefix(path, CacheDir \o <<Slash>>)

LastSlash(path) ==
    CHOOSE i \in 0..Len(path) :
      /\ i = 0 \/ path[i] = Slash
      /\ \A j \in (i + 1)..Len(path) : path[j] # Slash

\* filepath.Dir
Dir(path) ==
    LET i == LastSlash(path)
    IN  IF i = 0 THEN <<".">>
        ELSE IF i = 1 THEN <<Slash>>
        ELSE SubSeq(path, 1, i - 1)

IsDir(d, path) ==
    \/ path = CacheDir
    \/ path = <<Slash>>
    \/ \E name \in DOMAIN d.names : HasPrefix(name, path \o <<Slash>>)

Unlink(names, name) == [n \in DOMAIN names \ {name} |-> names[n]]

\* A write straight to the final path.
FinalName(path, n) == path

\* os.CreateTemp(dir, ".tmp-"): a name in the directory of the final path
\* that no other call has; n is the number of the call.
TempName(path, n) == Join(Dir(path), <<".tmp-", ToString(n)>>)

\* The temporary file is a new, empty file.
CreateTemp(d, path, n) ==
    [ names |-> (TempName(path, n) :> (Len(d.files) + 1)) @@ d.names,
      files |-> Append(d.files, <<>>) ]

\* os.Rename and then the deferred os.Remove of the temporary name.  A file
\* cannot be renamed over a directory.
RenameTemp(d, tmp, path) ==
    IF IsDir(d, path) THEN [d EXCEPT !.names = Unlink(d.names, tmp)]
    ELSE LET moved == (path :> d.names[tmp]) @@ Unlink(d.names, tmp)
         IN  [d EXCEPT !.names = Unlink(moved, tmp)]

\* Archive bodies, in the chunks io.Copy writes and reads them.
B1 == <<"a1", "a2">>
B2 == <<"b1", "b2">>
ArchiveBodies == {B1, B2}
\* An index, a manifest, a hash or a URL goes in one write.
Text == <<"t">>

\* The archive path the threads meet on.
P == <<"h", Slash, "n", Slash, "t", Slash, "x", ".zip">>

\* Archive paths: usual, with parent and current directory segments, empty,
\* and with leading separators.
ArchiveKeys ==
    { P, <<"..">>, <<".">>, <<>>, <<Slash>>,
      <<"..", Slash, "..", Slash, "x", ".zip">>,
      <<Slash, Slash, "h", Slash, ".", Slash, "..", Slash, "y", ".zip">> }

\* Key components of indexes and manifests.
KeyHosts == {<<"h">>, <<"..">>}
KeyVersions ==
    { <<"1">>, <<"index">>,
      <<"..", Slash, "..", Slash, "..", Slash, "..", Slash, "v">> }

PutOps == {"PutIndex", "PutVersion", "PutArchive", "PutH1Hash", "PutUpstreamURL"}

CanCall(t) == calls[t].pc = "idle" /\ ncalls < MaxCalls

\* The start of writeFileAtomic and of PutArchive: the directory and the
\* temporary file are made.
BeginWrite(t, op, key, path, data) ==
    /\ CanCall(t)
    /\ ncalls' = ncalls + 1
    /\ disk' = CreateTemp(disk, path, ncalls + 1)
    /\ calls' = [calls EXCEPT ![t] =
                   [IdleCall EXCEPT !.pc = "write", !.op = op, !.key = key,
                                    !.path = path,
                                    !.tmp = TempName(path, ncalls + 1),
                                    !.ino = Len(disk.files) + 1,
                                    !.data = data]]
    /\ UNCHANGED mirrorVars

\* os.Open or os.ReadFile of a path: a missing file is io.EOF (which the
\* sidecar reads turn into the empty string), a directory opens and fails
\* at the first read.
OpenFile(t, op, key, path, missing) ==
    /\ CanCall(t)
    /\ ncalls' = ncalls + 1
    /\ calls' = [calls EXCEPT ![t] =
                   LET c == [IdleCall EXCEPT !.op = op, !.key = key, !.path = path]
                   IN  IF path \in DOMAIN disk.names
                       THEN [c EXCEPT !.pc = "read", !.ino = disk.names[path]]
                       ELSE IF IsDir(disk, path)
                       THEN [c EXCEPT !.pc = "done", !.err = "other"]
                       ELSE [c EXCEPT !.pc = "done", !.err = missing]]
    /\ UNCHANGED <<disk, mirrorVars>>

\* readFile: the check that the path starts with the cache directory, then
\* the read.
BeginRead(t, op, key, path, missing) ==
    IF ~HasPrefix(path, CacheDir)
    THEN /\ CanCall(t)
         /\ ncalls' = ncalls + 1
         /\ calls' = [calls EXCEPT ![t] =
                        [IdleCall EXCEPT !.pc = "done", !.op = op, !.key = key,
                                         !.path = path, !.err = "outside"]]
         /\ UNCHANGED <<disk, mirrorVars>>
    ELSE OpenFile(t, op, key, path, missing)

PutIndex(t, h) ==
    BeginWrite(t, "PutIndex", h, indexPath(h, Namespace, ProviderType), Text)

PutVersion(t, h, v) ==
    BeginWrite(t, "PutVersion", h \o <<Slash>> \o v,
               versionPath(h, Namespace, ProviderType, v), Text)

PutArchive(t, path, data) ==
    BeginWrite(t, "PutArchive", path, archivePath(path), data)

PutH1Hash(t, path) ==
    BeginWrite(t, "PutH1Hash", path, h1HashPath(path), Text)

PutUpstreamURL(t, path) ==
    BeginWrite(t, "PutUpstreamURL", path, upstreamURLPath(path), Text)

GetIndexFile(t, h) ==
    BeginRead(t, "GetIndex", h, indexPath(h, Namespace, ProviderType), "EOF")

GetVersionFile(t, h, v) ==
    BeginRead(t, "GetVersion", h \o <<Slash>> \o v,
              versionPath(h, Namespace, ProviderType, v), "EOF")

GetArchive(t, path) ==
    OpenFile(t, "GetArchive", path, archivePath(path), "EOF")

GetH1Hash(t, path) ==
    BeginRead(t, "GetH1Hash", path, h1HashPath(path), "nil")

GetUpstreamURL(t, path) ==
    BeginRead(t, "GetUpstreamURL", path, upstreamURLPath(path), "nil")

\* One write of io.Copy or of tmpFile.Write.
WriteChunk(t) ==
    /\ calls[t].pc = "write"
    /\ calls[t].data # <<>>
    /\ disk' = [disk EXCEPT !.files[calls[t].ino] = Append(@, Head(calls[t].data))]
    /\ calls' = [calls EXCEPT ![t].data = Tail(@)]
    /\ UNCHANGED <<ncalls, mirrorVars>>

\* A write or the close fails: the deferred os.Remove takes the temporary
\* file away.
WriteFails(t) ==
    /\ calls[t].pc = "write"
    /\ disk' = [disk EXCEPT !.names = Unlink(@, calls[t].tmp)]
    /\ calls' = [calls EXCEPT ![t].pc = "done", ![t].err = "write"]
    /\ UNCHANGED <<ncalls, mirrorVars>>

\* All is written: the temporary file is renamed over the path.
Rename(t) ==
    /\ calls[t].pc = "write"
    /\ calls[t].data = <<>>
    /\ disk' = RenameTemp(disk, calls[t].tmp, calls[t].path)
    /\ calls' = [calls EXCEPT ![t].pc = "done",
                              ![t].err = IF IsDir(disk, calls[t].path)
                                         THEN "rename" ELSE "nil"]
    /\ UNCHANGED <<ncalls, mirrorVars>>

\* One read of the open file; the read at the end of the file ends the call.
ReadChunk(t) ==
    /\ calls[t].pc = "read"
    /\ LET file == disk.files[calls[t].ino]
           n == Len(calls[t].got)
       IN  calls' = [calls EXCEPT ![t] =
                       IF n < Len(file)
                       THEN [@ EXCEPT !.got = Append(@, file[n + 1])]
                       ELSE [@ EXCEPT !.pc = "done"]]
    /\ UNCHANGED <<disk, ncalls, mirrorVars>>

\* The caller has the result.
Return(t) ==
    /\ calls[t].pc = "done"
    /\ calls' = [calls EXCEPT ![t] = IdleCall]
    /\ UNCHANGED <<disk, ncalls, mirrorVars>>

\* Writers and readers of one archive.
NextStorage ==
    \/ \E t \in Threads, data \in ArchiveBodies : PutArchive(t, P, data)
    \/ \E t \in Threads : GetArchive(t, P)
    \/ \E t \in Threads : WriteChunk(t)
    \/ \E t \in Threads : WriteFails(t)
    \/ \E t \in Threads : Rename(t)
    \/ \E t \in Threads : ReadChunk(t)
    \/ \E t \in Threads : Return(t)

SpecStorage == Init /\ [][NextStorage]_vars

\* One caller, every storage call, every key.
NextKeys ==
    \/ \E h \in KeyHosts : PutIndex(1, h)
    \/ \E h \in KeyHosts, v \in KeyVersions : PutVersion(1, h, v)
    \/ \E path \in ArchiveKeys : PutArchive(1, path, B1)
    \/ \E path \in ArchiveKeys : PutH1Hash(1, path)
    \/ \E path \in ArchiveKeys : PutUpstreamURL(1, path)
    \/ \E h \in KeyHosts : GetIndexFile(1, h)
    \/ \E h \in KeyHosts, v \in KeyVersions : GetVersionFile(1, h, v)
    \/ \E path \in ArchiveKeys : GetArchive(1, path)
    \/ \E path \in ArchiveKeys : GetH1Hash(1, path)
    \/ \E path \in ArchiveKeys : GetUpstreamURL(1, path)
    \/ WriteChunk(1)
    \/ WriteFails(1)
    \/ Rename(1)
    \/ ReadChunk(1)
    \/ Return(1)

SpecKeys == Init /\ [][NextKeys]_vars

\* C13: a reader of the archive path gets no archive, or exactly one of the
\* two bodies the writers store, and the file under the path is always
\* whole; when a write has succeeded the file is there.
C13_WholeArchive ==
    /\ \A t \in Threads :
         calls[t].op = "GetArchive" /\ calls[t].pc = "done"
           => \/ calls[t].err = "EOF" /\ calls[t].got = <<>>
              \/ calls[t].err = "nil" /\ calls[t].got \in ArchiveBodies
    /\ archivePath(P) \in DOMAIN disk.names
         => disk.files[disk.names[archivePath(P)]] \in ArchiveBodies
    /\ (\E t \in Threads : /\ calls[t].op = "PutArchive"
                           /\ calls[t].pc = "done" /\ calls[t].err = "nil")
         => archivePath(P) \in DOMAIN disk.names

\* A reader got a whole body while both writers, with different bodies, were
\* in their calls, one of them between two writes.
C13_Witness ==
    \E r, w1, w2 \in Threads :
      /\ calls[r].op = "GetArchive" /\ calls[r].pc = "done"
      /\ calls[r].got \in ArchiveBodies
      /\ calls[w1].op = "PutArchive" /\ calls[w1].pc = "write"
      /\ Len(disk.files[calls[w1].ino]) = 1
      /\ calls[w2].op = "PutArchive" /\ calls[w2].pc = "done"
      /\ disk.files[calls[w1].ino][1] # disk.files[calls[w2].ino][1]

\* C14: the file a read of an archive path opens (the archive, its h1
\* sidecar, its upstream URL sidecar) lies under the cache directory,
\* whatever the path.
C14_Original ==
    \A t \in Threads :
      /\ calls[t].op \in {"GetArchive", "GetH1Hash", "GetUpstreamURL"}
      /\ calls[t].ino # 0
      => Under(calls[t].path)

\* C15: a storage write that returns nil has written a file under the cache
\* directory, and between the calls every file of the disk is under it,
\* whatever the key.
C15_Original ==
    /\ \A t \in Threads :
         /\ calls[t].op \in PutOps
         /\ calls[t].pc = "done" /\ calls[t].err = "nil"
         => Under(calls[t].path)
    /\ (\A t \in Threads : calls[t].pc # "write")
         => \A name \in DOMAIN disk.names : Under(name)

\* C16: a request for a manifest that finds it in storage, right after the
\* request that fetched and stored the same manifest, returns the manifest
\* that request returned: the same platforms, URLs and hashes.
C16_SameManifest ==
    \A p \in Procs :
      /\ Served(p, "version") /\ req[p].hit
      /\ last.op = "version" /\ last.arg = req[p].arg
      /\ ~last.hit /\ last.err = "nil"
      => req[p].val = last.val

\* A hit right after the miss for the same version, whose manifest has an
\* archive with a rewritten URL and an h1 hash from storage.
C16_Witness ==
    \E p \in Procs, pl \in Platforms :
      /\ Served(p, "version") /\ req[p].hit
      /\ last.op = "version" /\ last.arg = req[p].arg
      /\ ~last.hit /\ last.err = "nil"
      /\ pl \in DOMAIN Output(p)
      /\ Output(p)[pl].url # Raw(p)[pl].url
      /\ Len(Output(p)[pl].hashes) > Len(Raw(p)[pl].hashes)

\* C17: the rewrite step applied to a manifest it has produced, with the
\* same provider, base URL and h1 sidecars, returns that manifest: every
\* URL and every list of hashes as it was.
C17_Original ==
    \A p \in Procs : Served(p, "rewrite") => Output(p) = Raw(p)

(***************************************************************************)
(* The upstream client on its own, in its two dialects: the provider       *)
(* network mirror protocol, and the registry API of registry.terraform.io. *)
(***************************************************************************)
RegistryHost == <<"registry.terraform.io">>
RegistryURL == <<"https:", "/", "/", "registry.terraform.io">>
MirrorURL == <<"https:", "/", "/", "mirror.example">>

\* The test FetchIndex and FetchVersion choose the dialect by.
IsRegistry(hostname, base) == hostname = RegistryHost \/ base = RegistryURL

\* A list of nine platforms.
NinePlatforms ==
    << <<"linux", "amd64">>, <<"linux", "arm64">>, <<"darwin", "amd64">>,
       <<"darwin", "arm64">>, <<"windows", "amd64">>, <<"windows", "386">>,
       <<"freebsd", "amd64">>, <<"openbsd", "amd64">>, <<"linux", "386">> >>

\* The platforms convertRegistryAPIToVersionResponse probes, in its order.
RegistryPlatforms ==
    << <<"linux", "amd64">>, <<"linux", "arm64">>, <<"darwin", "amd64">>,
       <<"darwin", "arm64">>, <<"windows", "amd64">>, <<"windows", "386">>,
       <<"freebsd", "amd64">>, <<"openbsd", "amd64">> >>

\* fmt.Sprintf("%s_%s", os, arch)
platformKey(platform) == <<platform[1], "_", platform[2]>>

\* The download document upstream holds for a platform.
DownloadInfo(platform) ==
    [ download_url |-> <<"https:", "/", "/", "releases.example", "/">>
                       \o platformKey(platform) \o <<".zip">>,
      shasum |-> <<"sum">> \o platformKey(platform) ]

\* Version lists upstream may offer: up to MaxOffer records, repeats
\* included.
MaxOffer == 3
OfferVersions == {<<"1.0.0">>, <<"2.0.0">>}
Offers == UNION { [1..n -> OfferVersions] : n \in 0..MaxOffer }

\* The index document of the mirror protocol: an object keyed by version.
NativeIndex(offer) == [v \in {offer[i] : i \in DOMAIN offer} |-> "{}"]

\* The index document of the registry API: a list of {version} records.
RegistryIndex(offer) == [i \in DOMAIN offer |-> [version |-> offer[i]]]

\* A conversion that keeps the first record only.
convertFirstRecord(list) == IF list = <<>> THEN {} ELSE {list[1].version}

\* convertRegistryAPIToIndexResponse: versions[v.Version] = struct{}{} for
\* every record of the list.
convertRegistryAPIToIndexResponse(list) == {list[i].version : i \in DOMAIN list}

notClient == <<fs, upstream, req, started, failures, baseURL, storageVars, last>>

\* The provider the client is asked about, and the version.
AskedNamespace == <<"hashicorp">>
AskedType == <<"aws">>
AskedVersion == <<"5.0.0">>

\* buildURL: uc.baseURL + "/" + path
buildURL(base, path) == base \o <<Slash>> \o path

\* "%s/%s/%s/index.json" under the base URL.
MirrorIndexURL(base, hostname, namespace, providerType) ==
    buildURL(base, hostname \o <<Slash>> \o namespace \o <<Slash>> \o providerType
                     \o <<Slash, "index", ".json">>)

\* "%s/%s/%s/%s.json" under the base URL.
MirrorVersionURL(base, hostname, namespace, providerType, version) ==
    buildURL(base, hostname \o <<Slash>> \o namespace \o <<Slash>> \o providerType
                     \o <<Slash>> \o version \o <<".json">>)

\* "%s/v1/providers/%s/%s/versions"
RegistryVersionsURL(base, namespace, providerType) ==
    base \o <<Slash, "v1", Slash, "providers", Slash>> \o namespace \o <<Slash>>
         \o providerType \o <<Slash, "versions">>

\* "%s/v1/providers/%s/%s/%s/download/%s/%s"
RegistryDownloadURL(base, namespace, providerType, version, platform) ==
    base \o <<Slash, "v1", Slash, "providers", Slash>> \o namespace \o <<Slash>>
         \o providerType \o <<Slash>> \o version
         \o <<Slash, "download", Slash, platform[1], Slash, platform[2]>>

\* FetchIndex, and the status IndexHandler answers with.
FetchIndex(offer, answers) ==
    /\ client.pc = "idle"
    /\ LET r == fetch(answers)
           url == IF IsRegistry(client.hostname, client.baseURL)
                  THEN RegistryVersionsURL(client.baseURL, AskedNamespace, AskedType)
                  ELSE MirrorIndexURL(client.baseURL, client.hostname,
                                      AskedNamespace, AskedType)
           c == [client EXCEPT !.pc = "done", !.op = "index", !.offer = offer,
                               !.url = url, !.requests = r.requests]
           err == IF r.err # "nil" THEN r.err
                  ELSE IF r.status = 404 THEN "ErrNotFound"
                  ELSE IF r.status # 200 THEN "other"
                  ELSE "nil"
           versions == IF err # "nil" THEN {}
                       ELSE IF IsRegistry(client.hostname, client.baseURL)
                       THEN convertRegistryAPIToIndexResponse(RegistryIndex(offer))
                       ELSE DOMAIN NativeIndex(offer)
       IN  client' = [c EXCEPT !.err = err, !.versions = versions,
                               !.status = HandlerStatus("index", err)]
    /\ UNCHANGED notClient

\* FetchVersion: the registry dialect goes to the probe loop, the mirror
\* protocol is one fetch.
FetchVersion(answers) ==
    /\ client.pc = "idle"
    /\ IF IsRegistry(client.hostname, client.baseURL)
       THEN client' = [client EXCEPT !.pc = "probe", !.op = "version"]
       ELSE LET r == FetchMetadata(fetch(answers), ManifestBlob(upstream.manifest))
            IN  client' = [client EXCEPT
                    !.pc = "done", !.op = "version", !.answers = answers,
                    !.requests = r.requests,
                    !.url = MirrorVersionURL(client.baseURL, client.hostname,
                                AskedNamespace, AskedType, AskedVersion),
                    !.err = r.err,
                    !.archives = IF r.err = "nil" THEN r.response.archives ELSE <<>>,
                    !.status = HandlerStatus("version", r.err)]
    /\ UNCHANGED notClient

\* A probe that takes every answer for a platform.
ProbeAny(r) == r.err = "nil"

\* The probe found the platform: no error of fetch, and status 200.
ProbeFound(r) == r.err = "nil" /\ r.status = 200

\* What a probe came to: the status, or 0 for an error of fetch.
ProbeOutcome(r) == IF r.err # "nil" THEN 0 ELSE r.status

\* The end of convertRegistryAPIToVersionResponse.
ProbesEnd(c) ==
    LET err == IF DOMAIN c.archives = {} THEN "other" ELSE "nil"
    IN  [c EXCEPT !.pc = "done", !.err = err,
                  !.status = HandlerStatus("version", err)]

\* One round of the loop of convertRegistryAPIToVersionResponse.
convertRegistryAPIToVersionResponse(answers) ==
    /\ client.pc = "probe"
    /\ LET platform == RegistryPlatforms[Len(client.seen) + 1]
           r == fetch(answers)
           info == DownloadInfo(platform)
           archives == IF ProbeFound(r)
                       THEN (platformKey(platform) :>
                               Archive(info.download_url,
                                       << <<"zh:">> \o info.shasum >>))
                            @@ client.archives
                       ELSE client.archives
           c == [client EXCEPT !.seen = Append(@, ProbeOutcome(r)),
                               !.archives = archives,
                               !.requests = @ + r.requests,
                               !.url = RegistryDownloadURL(client.baseURL,
                                           AskedNamespace, AskedType,
                                           AskedVersion, platform)]
       IN  client' = IF Len(c.seen) = Len(RegistryPlatforms) THEN ProbesEnd(c)
                     ELSE c
    /\ UNCHANGED notClient

\* FetchArchive, as Mirror.GetArchive calls it after a miss.
ClientFetchArchive(answer) ==
    /\ client.pc = "idle"
    /\ LET r == FetchArchive(answer, upstream.body)
       IN  client' = [client EXCEPT !.pc = "done", !.op = "archive",
                                    !.requests = 1, !.err = r.err,
                                    !.status = HandlerStatus("archive", r.err)]
    /\ UNCHANGED notClient

\* The caller has the result; the client serves the next call.
ClientReturn ==
    /\ client.pc = "done"
    /\ client' = IdleClient(client.hostname, client.baseURL)
    /\ UNCHANGED notClient

InitClient ==
    /\ fs = <<>>
    /\ upstream \in Upstreams
    /\ req = [p \in Procs |-> IdleReq]
    /\ started = 0
    /\ failures = 0
    /\ baseURL = <<"http:", "/", "/", "mirror.example", "/">>
    /\ disk = FirstDisk
    /\ calls = [t \in Threads |-> IdleCall]
    /\ ncalls = 0
    /\ last = NoResponse
    /\ \E hostname \in {Hostname, RegistryHost}, base \in {MirrorURL, RegistryURL} :
         client = IdleClient(hostname, base)

NextClient ==
    \/ \E offer \in Offers, answers \in AnswerSeqs : FetchIndex(offer, answers)
    \/ \E answers \in AnswerSeqs : FetchVersion(answers)
    \/ \E answers \in AnswerSeqs : convertRegistryAPIToVersionResponse(answers)
    \/ \E answer \in Answers : ClientFetchArchive(answer)
    \/ ClientReturn

SpecClient == InitClient /\ [][NextClient]_vars

ClientDone(op) == client.pc = "done" /\ client.op = op

\* C18: an index fetched without error has as its version keys exactly the
\* versions upstream offers, in the mirror protocol and in the registry
\* dialect, where the offer is a list that may repeat a version.
C18_IndexKeys ==
    ClientDone("index") /\ client.err = "nil"
      => client.versions = {client.offer[i] : i \in DOMAIN client.offer}

\* The registry dialect has answered with a list of two versions, one of
\* them twice.
C18_Witness ==
    /\ ClientDone("index") /\ client.err = "nil"
    /\ IsRegistry(client.hostname, client.baseURL)
    /\ Len(client.offer) = 3
    /\ Cardinality(client.versions) = 2

\* C19: in the registry dialect the loop probes the eight platforms in
\* turn; the archives map has one entry os_arch for each probe answered 200,
\* with the download URL and the one hash zh:shasum of that platform, and
\* none for any other probe; when the map is empty at the end the call
\* fails.
C19_Probes ==
    client.op = "version" /\ IsRegistry(client.hostname, client.baseURL)
      => /\ Len(client.seen) <= Len(RegistryPlatforms)
         /\ client.pc = "done" => Len(client.seen) = Len(RegistryPlatforms)
         /\ DOMAIN client.archives =
              {platformKey(RegistryPlatforms[i]) :
                 i \in {j \in DOMAIN client.seen : client.seen[j] = 200}}
         /\ \A i \in DOMAIN client.seen :
              client.seen[i] = 200
                => LET platform == RegistryPlatforms[i]
                   IN  client.archives[platformKey(platform)] =
                         [url |-> DownloadInfo(platform).download_url,
                          hashes |-> << <<"zh:">> \o DownloadInfo(platform).shasum >>]
         /\ client.pc = "done"
              => (client.err = "nil" <=> \E i \in DOMAIN client.seen : client.seen[i] = 200)

\* Five probes were answered 200 and three 404.
C19_Witness ==
    /\ ClientDone("version") /\ IsRegistry(client.hostname, client.baseURL)
    /\ client.err = "nil"
    /\ Cardinality({i \in DOMAIN client.seen : client.seen[i] = 200}) = 5
    /\ Cardinality({i \in DOMAIN client.seen : client.seen[i] = 404}) = 3
    /\ Cardinality(DOMAIN client.archives) = 5

\* C20: a manifest upstream does not have (404 for the version document in
\* the mirror protocol, 404 on every platform probe in the registry
\* dialect) ends in ErrNotFound, which the handler answers with 404.
C20_Original ==
    /\ ClientDone("version")
    /\ IF IsRegistry(client.hostname, client.baseURL)
       THEN \A i \in DOMAIN client.seen : client.seen[i] = 404
       ELSE \E i \in DOMAIN client.answers : FirstAnswer(client.answers, i, 404)
    => client.err = "ErrNotFound" /\ client.status = 404

\* C21: an index, a manifest or an archive that is in storage stays there
\* with the same contents, whatever the requests and upstream do.
C21_Original ==
    [][\A k \in DOMAIN fs :
         fs[k].kind \in {"index", "manifest", "archive"}
           => k \in DOMAIN fs' /\ fs'[k] = fs[k]]_vars

(***************************************************************************)
(* ProviderAddress.Validate, applied to addresses of every shape.          *)
(***************************************************************************)
\* Values of a field of the address: the empty string among them.
FieldValues == {<<>>, <<"registry.terraform.io">>, <<"hashicorp">>, <<"aws">>, <<"..">>}

ProviderAddresses == [Hostname : FieldValues, Namespace : FieldValues, Type : FieldValues]

\* An error made by fmt.Errorf("%w: ...", ErrInvalidAddress).
InvalidAddress(msg) == [wraps |-> "ErrInvalidAddress", msg |-> msg]

NoError == [wraps |-> "nil", msg |-> ""]

\* A validation that looks at the type first.
ValidateTypeFirst(p) ==
    IF p.Type = <<>> THEN InvalidAddress("type is required")
    ELSE IF p.Namespace = <<>> THEN InvalidAddress("namespace is required")
    ELSE IF p.Hostname = <<>> THEN InvalidAddress("hostname is required")
    ELSE NoError

\* ProviderAddress.Validate
Validate(p) ==
    IF p.Hostname = <<>> THEN InvalidAddress("hostname is required")
    ELSE IF p.Namespace = <<>> THEN InvalidAddress("namespace is required")
    ELSE IF p.Type = <<>> THEN InvalidAddress("type is required")
    ELSE NoError

\* A caller validates an address.
ValidateAddress(address) ==
    /\ client.pc = "idle"
    /\ client' = [pc |-> "done", address |-> address, err |-> Validate(address)]
    /\ UNCHANGED notClient

\* The caller has the answer.
ValidateReturn ==
    /\ client.pc = "done"
    /\ client' = [pc |-> "idle", address |-> client.address, err |-> NoError]
    /\ UNCHANGED notClient

InitAddress ==
    /\ fs = <<>>
    /\ upstream \in Upstreams
    /\ req = [p \in Procs |-> IdleReq]
    /\ started = 0
    /\ failures = 0
    /\ baseURL = <<"http:", "/", "/", "mirror.example", "/">>
    /\ disk = FirstDisk
    /\ calls = [t \in Threads |-> IdleCall]
    /\ ncalls = 0
    /\ last = NoResponse
    /\ client = [pc |-> "idle",
                 address |-> [Hostname |-> <<>>, Namespace |-> <<>>, Type |-> <<>>],
                 err |-> NoError]

NextAddress ==
    \/ \E address \in ProviderAddresses : ValidateAddress(address)
    \/ ValidateReturn

SpecAddress == InitAddress /\ [][NextAddress]_vars

\* The fields of an address in the order hostname, namespace, type, with
\* the name the error gives each.
AddressFields(p) ==
    << <<p.Hostname, "hostname is required">>,
       <<p.Namespace, "namespace is required">>,
       <<p.Type, "type is required">> >>

\* C22: Validate returns nil exactly when the three fields are non-empty;
\* otherwise the error wraps ErrInvalidAddress and names the first empty
\* field in the order hostname, namespace, type.
C22_Validate ==
    client.pc = "done"
      => LET fields == AddressFields(client.address)
             empty == {i \in DOMAIN fields : fields[i][1] = <<>>}
         IN  IF empty = {} THEN client.err = NoError
             ELSE /\ client.err.wraps = "ErrInvalidAddress"
                  /\ \E i \in empty :
                       /\ \A j \in empty : i <= j
                       /\ client.err.msg = fields[i][2]

\* An address with the namespace and the type empty was validated.
C22_Witness ==
    /\ client.pc = "done"
    /\ client.address.Hostname # <<>>
    /\ client.address.Namespace = <<>> /\ client.address.Type = <<>>
    /\ client.err.msg = "namespace is required"

\* The increments of errors_total{subsystem} that the calls make: one for
\* each RecordError of the subsystem.
errors_total(recorded, subsystem) ==
    Cardinality({i \in DOMAIN recorded :
                   recorded[i][1] = "RecordError" /\ recorded[i][2] = subsystem})

\* The increments of upstream_requests_total{status}: one for each
\* RecordUpstreamRequest with the status.
upstream_requests_total(recorded, status) ==
    Cardinality({i \in DOMAIN recorded :
                   recorded[i][1] = "RecordUpstreamRequest" /\ recorded[i][2] = status})

\* C23: an index request that ends with every attempt answered 500 has
\* incremented upstream_requests_total{status="500"} at least once and
\* errors_total{subsystem="index_handler"} by exactly one.
C23_Original ==
    \A p \in Procs :
      /\ Done(p, "index")
      /\ req[p].answers = [i \in 1..(MaxRetries + 1) |-> 500]
      => /\ upstream_requests_total(req[p].metrics, "500") >= 1
         /\ errors_total(req[p].metrics, "index_handler") = 1

(***************************************************************************)
(* UpstreamClient.fetch step by step: the request, the answer, the backoff *)
(* wait, with the context of the caller cancelled at any point; and        *)
(* FetchArchive, which is one request.                                     *)
(***************************************************************************)
\* What upstream answers: 0 is a transport failure, the rest are statuses.
FetchAnswers == {0, 200, 204, 403, 404, 500, 503}

IdleFetch ==
    [ pc |-> "idle", kind |-> "none",
      attempt |-> 0, lastErr |-> "nil", lastStatus |-> 0,
      requests |-> 0,        \* requests sent to upstream
      waits |-> 0,           \* backoff waits begun
      waitStatus |-> 0,      \* the status the wait under way returns if cancelled
      answers |-> <<>>,      \* what came back, request by request
      cancelled |-> FALSE,   \* ctx.Done() is closed
      cancelledAt |-> "none",\* where the call stood when it was cancelled
      sentThen |-> 0,        \* the requests sent by then
      err |-> "nil", status |-> 0,
      put |-> FALSE ]        \* the caller has written the response to storage

\* A request built without the context is sent whatever the context.
DoNeverFails(c) == FALSE

\* http.NewRequestWithContext and httpClient.Do: with the context done the
\* transport returns its error before sending.
DoFails(c) == c.cancelled

\* `return body, resp.StatusCode, nil`
ReturnResponse(c, a) == [c EXCEPT !.pc = "done", !.err = "nil", !.status = a]

\* After the loop: lastErr, or the error for max retries exceeded.
LoopExit(c) ==
    [c EXCEPT !.pc = "done", !.status = c.lastStatus,
              !.err = IF c.lastErr # "nil" THEN c.lastErr ELSE "other"]

\* The select on ctx.Done() and time.After begins.
Backoff(c, status) ==
    [c EXCEPT !.pc = "backoff", !.waits = @ + 1, !.waitStatus = status]

\* httpClient.Do returned an error.
OnTransportError(c, err) ==
    LET d == [c EXCEPT !.lastErr = err]
    IN  IF c.attempt < MaxRetries THEN Backoff(d, 0)
        ELSE LoopExit([d EXCEPT !.attempt = @ + 1])

\* A client error handled as a server error is.
RetryClientError(c, a) ==
    LET d == [c EXCEPT !.lastStatus = a]
    IN  IF c.attempt < MaxRetries THEN Backoff(d, a)
        ELSE LoopExit([d EXCEPT !.attempt = @ + 1, !.lastErr = "other"])

\* A status of 400 to 499: the body and the status go to the caller.
OnClientError(c, a) == ReturnResponse([c EXCEPT !.lastStatus = a], a)

\* A status of 500 or more: a wait and another attempt, or after the last
\* attempt the server error.
OnServerError(c, a) ==
    LET d == [c EXCEPT !.lastStatus = a]
    IN  IF c.attempt < MaxRetries THEN Backoff(d, a)
        ELSE LoopExit([d EXCEPT !.attempt = @ + 1, !.lastErr = "other"])

\* A caller calls fetch.
FetchBegin ==
    /\ client.pc = "idle"
    /\ client' = [IdleFetch EXCEPT !.pc = "attempt", !.kind = "fetch"]
    /\ UNCHANGED notClient

\* The caller's context is cancelled, or its deadline passes.
Cancel ==
    /\ client.kind = "fetch"
    /\ client.pc \in {"attempt", "inflight", "backoff"}
    /\ ~client.cancelled
    /\ client' = [client EXCEPT !.cancelled = TRUE, !.cancelledAt = client.pc,
                                !.sentThen = client.requests]
    /\ UNCHANGED notClient

\* The top of the loop: the request is sent, unless Do fails at once.
Do ==
    /\ client.pc = "attempt"
    /\ client' = IF DoFails(client)
                 THEN OnTransportError([client EXCEPT !.answers = Append(@, 0)], "ctx")
                 ELSE [client EXCEPT !.pc = "inflight", !.requests = @ + 1]
    /\ UNCHANGED notClient

\* The request ends: an answer, a transport failure, or, with the context
\* done, its error.
Answer(a) ==
    /\ client.pc = "inflight"
    /\ LET c == [client EXCEPT !.answers = Append(@, a)]
       IN  client' = IF a = 0
                     THEN OnTransportError(c, IF c.cancelled THEN "ctx" ELSE "other")
                     ELSE IF a >= 400 /\ a < 500 THEN OnClientError(c, a)
                     ELSE IF a >= 500 THEN OnServerError(c, a)
                     ELSE ReturnResponse([c EXCEPT !.lastStatus = a], a)
    /\ UNCHANGED notClient

\* `case <-ctx.Done()`: fetch returns ctx.Err().
BackoffCancelled ==
    /\ client.pc = "backoff"
    /\ client.cancelled
    /\ client' = [client EXCEPT !.pc = "done", !.err = "ctx",
                                !.status = client.waitStatus]
    /\ UNCHANGED notClient

\* `case <-time.After(...)`: the next attempt.  With the context done as
\* well, select may still take this case.
BackoffElapsed ==
    /\ client.pc = "backoff"
    /\ client' = [client EXCEPT !.pc = "attempt", !.attempt = @ + 1]
    /\ UNCHANGED notClient

\* FetchArchive: one request, and the check for http.StatusOK.
FetchArchiveCall(a) ==
    /\ client.pc = "idle"
    /\ LET r == FetchArchive(a, "zip")
       IN  client' = [IdleFetch EXCEPT !.pc = "done", !.kind = "FetchArchive",
                                       !.requests = 1, !.answers = <<a>>,
                                       !.err = r.err, !.status = a]
    /\ UNCHANGED notClient

\* The caller of the fetch (FetchIndex, FetchVersion, then the mirror)
\* stores the response only when there is no error and the status is 200.
CallerStores ==
    /\ client.pc = "done"
    /\ client' = [client EXCEPT !.pc = "returned",
                                !.put = client.err = "nil" /\ client.status = 200]
    /\ UNCHANGED notClient

\* The request is over.
FetchOver ==
    /\ client.pc = "returned"
    /\ client' = IdleFetch
    /\ UNCHANGED notClient

InitFetch ==
    /\ fs = <<>>
    /\ upstream \in Upstreams
    /\ req = [p \in Procs |-> IdleReq]
    /\ started = 0
    /\ failures = 0
    /\ baseURL = <<"http:", "/", "/", "mirror.example", "/">>
    /\ disk = FirstDisk
    /\ calls = [t \in Threads |-> IdleCall]
    /\ ncalls = 0
    /\ last = NoResponse
    /\ client = IdleFetch

NextFetch ==
    \/ FetchBegin
    \/ Cancel
    \/ Do
    \/ \E a \in FetchAnswers : Answer(a)
    \/ BackoffCancelled
    \/ BackoffElapsed
    \/ \E a \in FetchAnswers : FetchArchiveCall(a)
    \/ CallerStores
    \/ FetchOver

SpecFetch == InitFetch /\ [][NextFetch]_vars

FetchEnded(kind) == client.kind = kind /\ client.pc \in {"done", "returned"}

\* C24: when a metadata fetch gets a status of 400 to 499 it returns that
\* status without error at once: the answer is the last one, every request
\* sent was answered, and the only waits are those after the earlier
\* attempts.
C24_ClientError ==
    /\ [][\A a \in FetchAnswers :
            /\ client.pc = "inflight" /\ a >= 400 /\ a < 500
            /\ client'.answers = Append(client.answers, a)
            => /\ client'.pc = "done"
               /\ client'.err = "nil" /\ client'.status = a
               /\ client'.waits = client.waits
               /\ client'.requests = client.requests]_vars
    /\ [](FetchEnded("fetch")
            => /\ client.requests <= Len(client.answers)
               /\ \A i \in DOMAIN client.answers :
                    client.answers[i] >= 400 /\ client.answers[i] < 500
                      => /\ i = Len(client.answers)
                         /\ client.waits = i - 1)

\* A 403 came after an attempt that failed and a wait.
C24_Witness ==
    /\ FetchEnded("fetch")
    /\ Len(client.answers) = 2 /\ client.answers[2] = 403
    /\ client.status = 403 /\ client.err = "nil"
    /\ client.requests = 2 /\ client.waits = 1

C28_Original ==
    FetchEnded("FetchArchive")
      => /\ client.requests = 1
         /\ client.err = "nil" <=> (client.status >= 200 /\ client.status < 300)

\* FetchArchive sends one request and returns the stream for the status 200
\* alone; any other status, and a transport failure, is an error.
C28_OnlyOK ==
    FetchEnded("FetchArchive")
      => /\ client.requests = 1 /\ Len(client.answers) = 1
         /\ client.waits = 0
         /\ client.err = "nil" <=> client.status = 200

\* FetchArchive was answered 204 and failed.
C28_Witness ==
    /\ FetchEnded("FetchArchive")
    /\ client.status = 204 /\ client.err # "nil" /\ client.requests = 1

\* C26: with a base URL that is not the registry API, every request of
\* FetchIndex and FetchVersion goes to the mirror-protocol URL of the
\* provider, <base>/<h>/<ns>/<t>/index.json or <base>/<h>/<ns>/<t>/<v>.json,
\* whatever hostname is asked for.
C26_Original ==
    client.url # <<>> /\ client.baseURL # RegistryURL
      => client.url \in
           { MirrorIndexURL(client.baseURL, client.hostname,
                            AskedNamespace, AskedType),
             MirrorVersionURL(client.baseURL, client.hostname,
                              AskedNamespace, AskedType, AskedVersion) }

\* C27: the tail of the request path selects the operation: index.json
\* is GetIndex; another tail ending in .json is GetVersion of the tail
\* without the suffix; a tail ending in .zip is GetArchive of
\* <h>/<ns>/<t>/<tail>; any other tail is answered 404 at once, with no
\* fetch from upstream and nothing read from or written to storage.
C27_Dispatch ==
    /\ [](\A p \in Procs :
            req[p].pc # "idle" /\ req[p].op # "rewrite"
              => LET r == req[p]
                     tail == r.tail
                 IN  IF tail = <<"index", ".json">> THEN r.op = "index"
                     ELSE IF HasSuffix(tail, <<".json">>)
                     THEN r.op = "version" /\ r.arg \o <<".json">> = tail
                     ELSE IF HasSuffix(tail, <<".zip">>)
                     THEN /\ r.op = "archive"
                          /\ r.arg = Hostname \o <<Slash>> \o Namespace \o <<Slash>>
                                       \o ProviderType \o <<Slash>> \o tail
                     ELSE /\ r.op = "none" /\ r.pc = "done" /\ r.status = 404
                          /\ r.nreq = 0 /\ ~r.hit /\ r.val = NoData)
    /\ [][\A p \in Procs :
            req[p].pc = "idle" /\ req'[p].pc # "idle" /\ req'[p].op = "none"
              => fs' = fs /\ upstream' = upstream]_vars

\* One request is for the manifest of 5.0.0, the other was answered 404 for
\* a tail that has .json inside it but not at its end.
C27_Witness ==
    \E p, q \in Procs :
      /\ req[p].op = "version" /\ req[p].tail = <<"5.0.0", ".json">>
      /\ req[q].op = "none" /\ req[q].tail = <<"index", ".json", ".sig">>
      /\ req[q].status = 404

\* A storage write of request p fails in this step.
WriteFailed(p, pc) ==
    /\ req[p].pc = pc
    /\ req'[p] # req[p]
    /\ failures' = failures + 1

\* C29: when PutIndex, PutVersion or PutUpstreamURL fails after a cache
\* miss, the request goes on as when the write succeeds: the index fetched
\* is returned with 200, the manifest fetched goes to the rewrite step, and
\* the rewrite step rewrites the archive as it does after a write that
\* succeeded; storage is as it was.
C29_WriteFailureIgnored ==
    [][\A p \in Procs :
         /\ WriteFailed(p, "gi_fill")
              => /\ fs' = fs
                 /\ req'[p].pc = "done" /\ req'[p].err = "nil"
                 /\ req'[p].status = 200
                 /\ req'[p].val = IndexBlob(upstream.index)
         /\ WriteFailed(p, "gv_fill")
              => /\ fs' = fs
                 /\ req'[p].err = "nil"
                 /\ req'[p].data = upstream.manifest
                 /\ req'[p].out = upstream.manifest
                 /\ req'[p].pc = "rw"
         /\ WriteFailed(p, "rw")
              => /\ fs' = fs
                 /\ req'[p].err = "nil"
                 /\ req'[p].pc \in {"rw", "done"}
                 /\ \E platform \in req[p].todo :
                      LET archive == req[p].out[platform]
                          path == Hostname \o <<Slash>> \o Namespace \o <<Slash>>
                                    \o ProviderType \o <<Slash>>
                                    \o extractFilename(archive.url)
                          now == IF req'[p].pc = "done" THEN req'[p].val.archives
                                 ELSE req'[p].out
                      IN  /\ req'[p].todo = req[p].todo \ {platform}
                          /\ now[platform].url =
                               TrimSuffix(baseURL, <<Slash>>) \o <<Slash>> \o path
                          /\ now[platform].hashes =
                               WithH1(archive.hashes, StorageGetH1Hash(fs, path))
                 /\ req'[p].pc = "done" => req'[p].status = 200]_vars

\* A manifest request that missed is answered 200 with the archives of the
\* upstream manifest although PutVersion failed and storage has no manifest.
C29_Witness ==
    \E p \in Procs :
      /\ Done(p, "version") /\ ~req[p].hit
      /\ failures = 1
      /\ StorageGetVersion(fs, Hostname, Namespace, ProviderType,
                           req[p].arg).err # "nil"
      /\ req[p].status = 200
      /\ DOMAIN req[p].val.archives = DOMAIN upstream.manifest

\* C30: in GetArchive a PutArchive that fails ends the request with an
\* error, answered 500 without a stream, although the bytes were fetched;
\* a computeH1Hash or a PutH1Hash that fails does not: the request goes on
\* to PutArchive, and an archive request whose bytes were fetched ends in
\* an error only through PutArchive.
C30_ArchiveWriteFails ==
    [][\A p \in Procs :
         /\ WriteFailed(p, "ga_put")
              => /\ req[p].body # "" /\ req[p].nreq = 1
                 /\ req'[p].pc = "done" /\ req'[p].err # "nil"
                 /\ req'[p].status = 500 /\ req'[p].val = NoData
                 /\ fs' = fs
         /\ WriteFailed(p, "ga_h1")
              => /\ req'[p].pc = "ga_put" /\ req'[p].err = "nil"
                 /\ fs' = fs
         /\ req[p].pc = "ga_url" /\ req'[p].body # ""
              /\ computeH1Hash(req'[p].body).err # "nil"
              => req'[p].pc = "ga_put" /\ req'[p].err = "nil"
         /\ req[p].op = "archive" /\ req[p].body # ""
              /\ req'[p].pc = "done" /\ req'[p].err # "nil"
              => req[p].pc = "ga_put" /\ failures' = failures + 1]_vars

\* An archive was served with 200 although its bytes are no ZIP, so that
\* computeH1Hash failed and there is no sidecar.
C30_Witness ==
    \E p \in Procs :
      /\ Done(p, "archive") /\ ~req[p].hit
      /\ req[p].status = 200
      /\ computeH1Hash(req[p].body).err # "nil"
      /\ StorageGetH1Hash(fs, req[p].arg).str = <<>>

(***************************************************************************)
(* computeH1Hash entry by entry: the archive is extracted under a          *)
(* temporary directory, each entry after the test of its joined path.      *)
(***************************************************************************)
MaxEntries == 3

\* The directory os.MkdirTemp made.
TempDir == <<Slash, "tmp", Slash, "speculum-hash-1">>

\* Names of archive entries: plain, nested, absolute, the root itself, and
\* names that climb out of the directory.
EntryNames ==
    { <<"a">>, <<"d", Slash, "f">>, <<"d", Slash>>, <<Slash, "etc", Slash, "p">>,
      <<".">>, <<"..", Slash, "evil">>,
      <<"d", Slash, "..", Slash, "..", Slash, "x">>,
      <<"..", Slash, "speculum-hash-1", Slash, "in">> }

\* zip.File: the name, and whether FileInfo().IsDir() holds (the name ends
\* in a separator).
Entry(name) == [name |-> name, dir |-> HasSuffix(name, <<Slash>>)]

ZipArchives ==
    UNION { [1..n -> {Entry(name) : name \in EntryNames}] : n \in 1..MaxEntries }

IdleExtract ==
    [ pc |-> "idle", files |-> <<>>, i |-> 0,
      made |-> <<>>,      \* what the extraction has created: path to kind
      refused |-> {},     \* the entries the test turned down
      err |-> "nil" ]

\* A test that lets every path through.
AnyPath(path) == TRUE

\* strings.HasPrefix(path, filepath.Clean(tempDir)+string(os.PathSeparator))
UnderTempDir(path) == HasPrefix(path, Clean(TempDir) \o <<Slash>>)

\* The directories os.MkdirAll(path) has to make or find: path and what is
\* above it, up to the root.
RECURSIVE Ancestors(_)
Ancestors(path) ==
    IF path = <<Slash>> \/ path = <<".">> \/ path = <<>> THEN {}
    ELSE {path} \cup Ancestors(Dir(path))

\* os.MkdirAll: an error when something on the way is a file.
MkdirAll(made, path) ==
    LET todo == Ancestors(path) \ Ancestors(TempDir)
    IN  IF \E d \in todo : d \in DOMAIN made /\ made[d] = "file"
        THEN [err |-> "other", made |-> made]
        ELSE [err |-> "nil",
              made |-> [d \in todo \cup DOMAIN made |->
                          IF d \in todo THEN "dir" ELSE made[d]]]

\* os.OpenFile with O_CREATE and O_TRUNC: an error on a directory.
OpenFileCreate(made, path) ==
    IF path \in DOMAIN made /\ made[path] = "dir"
    THEN [err |-> "other", made |-> made]
    ELSE [err |-> "nil", made |-> (path :> "file") @@ made]

\* computeH1Hash is called with an archive zip.NewReader accepts.
ExtractBegin(files) ==
    /\ client.pc = "idle"
    /\ client' = [IdleExtract EXCEPT !.pc = "loop", !.files = files, !.i = 1]
    /\ UNCHANGED notClient

\* One round of the loop over zipReader.File.
ExtractEntry ==
    /\ client.pc = "loop"
    /\ client.i <= Len(client.files)
    /\ LET file == client.files[client.i]
           path == Join(TempDir, file.name)
           dirs == MkdirAll(client.made, IF file.dir THEN path ELSE Dir(path))
           out == IF dirs.err # "nil" \/ file.dir THEN dirs
                  ELSE OpenFileCreate(dirs.made, path)
       IN  client' =
             IF ~UnderTempDir(path)
             THEN [client EXCEPT !.pc = "done", !.err = "other",
                                 !.refused = @ \cup {client.i}]
             ELSE IF out.err # "nil"
             THEN [client EXCEPT !.pc = "done", !.err = "other",
                                 !.made = out.made]
             ELSE [client EXCEPT !.made = out.made, !.i = @ + 1]
    /\ UNCHANGED notClient

\* dirhash.HashDir on the directory, after the last entry.
HashDir ==
    /\ client.pc = "loop"
    /\ client.i > Len(client.files)
    /\ client' = [client EXCEPT !.pc = "done"]
    /\ UNCHANGED notClient

\* computeH1Hash returns; the deferred os.RemoveAll(tempDir) runs.
ExtractReturn ==
    /\ client.pc = "done"
    /\ client' = IdleExtract
    /\ UNCHANGED notClient

InitExtract ==
    /\ fs = <<>>
    /\ upstream \in Upstreams
    /\ req = [p \in Procs |-> IdleReq]
    /\ started = 0
    /\ failures = 0
    /\ baseURL = <<"http:", "/", "/", "mirror.example", "/">>
    /\ disk = FirstDisk
    /\ calls = [t \in Threads |-> IdleCall]
    /\ ncalls = 0
    /\ last = NoResponse
    /\ client = IdleExtract

NextExtract ==
    \/ \E files \in ZipArchives : ExtractBegin(files)
    \/ ExtractEntry
    \/ HashDir
    \/ ExtractReturn

SpecExtract == InitExtract /\ [][NextExtract]_vars

\* The path has no dot segment and lies below the temporary directory.
StrictlyInside(path) ==
    /\ Len(path) > Len(TempDir) + 1
    /\ SubSeq(path, 1, Len(TempDir)) = TempDir
    /\ path[Len(TempDir) + 1] = Slash
    /\ \A j \in 1..Len(path) : path[j] \notin {".", ".."}

\* Where the entry lands: the directory, then the name segment by segment,
\* ".." going one up, "." and the empty segment staying.
RECURSIVE Walk(_, _)
Walk(at, segs) ==
    IF segs = <<>> THEN at
    ELSE LET seg == Head(segs)
         IN  Walk(IF seg = <<>> \/ seg = <<".">> THEN at
                  ELSE IF seg = <<"..">>
                       THEN (IF Len(at) <= 1 THEN <<Slash>>
                             ELSE IF LastSlash(at) = 1 THEN <<Slash>>
                             ELSE SubSeq(at, 1, LastSlash(at) - 1))
                  ELSE IF at = <<Slash>> THEN at \o seg
                  ELSE at \o <<Slash>> \o seg,
                  Tail(segs))

\* C31: whatever the archive, everything the extraction creates lies
\* strictly under the temporary directory; and an entry whose path, joined
\* and cleaned, does not, ends computeH1Hash in an error in the step that
\* meets it, with nothing created.
C31_NoZipSlip ==
    /\ [](\A path \in DOMAIN client.made : StrictlyInside(path))
    /\ [][client.pc = "loop" /\ client.i <= Len(client.files)
            /\ ~StrictlyInside(Walk(TempDir, Split(client.files[client.i].name)))
            => /\ client'.pc = "done" /\ client'.err # "nil"
               /\ client'.made = client.made]_vars

\* A file and a directory were extracted, then an entry that climbs out of
\* the directory was turned down.
C31_Witness ==
    /\ client.pc = "done" /\ client.err # "nil"
    /\ client.refused = {3}
    /\ client.files[3].name = <<"d", Slash, "..", Slash, "..", Slash, "x">>
    /\ Cardinality(DOMAIN client.made) >= 2

(***************************************************************************)
(* Requests one at a time over a cache directory whose files can fail to   *)
(* read: os.ReadFile and os.Open return an error that is not ErrNotExist   *)
(* (permissions, an I/O error of the device).                              *)
(***************************************************************************)
\* readFile's "failed to read file", GetArchive's "failed to open archive".
ReadFailed == [err |-> "other", data |-> NoData]

\* What the lookup may return: what storage holds, or the read error.
Lookups(c) == {c, ReadFailed}

NextReadError ==
    \/ \E p \in Procs, tail \in Tails :
         /\ Alone(p)
         /\ MetadataHandler(tail) = "IndexHandler"
         /\ \E c \in Lookups(StorageGetIndex(fs, Hostname, Namespace, ProviderType)) :
              IndexLookup(p, tail, c)
    \/ \E p \in Procs, tail \in Tails :
         /\ Alone(p)
         /\ MetadataHandler(tail) = "VersionHandlerWithParams"
         /\ LET version == TrimSuffix(tail, <<".json">>)
            IN  \E c \in Lookups(StorageGetVersion(fs, Hostname, Namespace,
                                                   ProviderType, version)) :
                  VersionLookup(p, tail, version, c)
    \/ \E p \in Procs, tail \in Tails :
         /\ Alone(p)
         /\ MetadataHandler(tail) = "ArchiveHandlerForProvider"
         /\ \E c \in Lookups(StorageGetArchive(fs,
                       ProviderPath(Hostname, Namespace, ProviderType, tail))) :
              ArchiveLookup(p, tail, tail, c)
    \/ \E p \in Procs : GetIndexFill(p)
    \/ \E p \in Procs : GetVersionFill(p)
    \/ \E p \in Procs : RewriteArchive(p)
    \/ \E p \in Procs : GetArchiveFetch(p)
    \/ \E p \in Procs : GetArchivePutH1(p)
    \/ \E p \in Procs : GetArchivePut(p)
    \/ \E p \in Procs : GetArchiveReopen(p)
    \/ \E p \in Procs : Respond(p)

SpecReadError == Init /\ [][NextReadError]_vars

\* C32: a request whose storage lookup failed with an error other than
\* absent ends at once, answered 500, with no request to upstream.
C32_Original ==
    \A p \in Procs :
      req[p].pc # "idle" /\ req[p].readErr \notin {"nil", "EOF"}
        => /\ req[p].pc = "done" /\ req[p].status = 500
           /\ req[p].nreq = 0

(***************************************************************************)
(* Requests one at a time, whose context may be cancelled while they are   *)
(* served (the client goes away, a deadline passes).  A fetch from         *)
(* upstream under a context that is done fails; the storage calls take    *)
(* the context and do not look at it.                                      *)
(***************************************************************************)
\* r.Context() of the request p serves is cancelled.
CancelRequest(p) ==
    /\ req[p].pc \notin {"idle", "done"}
    /\ ~req[p].cancelled
    /\ req' = [req EXCEPT ![p] = [req[p] EXCEPT !.cancelled = TRUE]]
    /\ UNCHANGED <<fs, upstream, started, failures, baseURL, aside>>

\* The fetch of a cancelled request returns an error.
FetchUnder(p) == req[p].cancelled => req'[p].err # "nil"

NextCancel ==
    \/ \E p \in Procs, tail \in Tails :
         /\ Alone(p)
         /\ MetadataHandler(tail) = "IndexHandler"
         /\ IndexHandler(p, tail)
    \/ \E p \in Procs, tail \in Tails :
         /\ Alone(p)
         /\ MetadataHandler(tail) = "VersionHandlerWithParams"
         /\ VersionHandlerWithParams(p, tail, TrimSuffix(tail, <<".json">>))
    \/ \E p \in Procs, tail \in Tails :
         /\ Alone(p)
         /\ MetadataHandler(tail) = "ArchiveHandlerForProvider"
         /\ ArchiveHandlerForProvider(p, tail, tail)
    \/ \E p \in Procs : CancelRequest(p)
    \/ \E p \in Procs : GetIndexFill(p) /\ FetchUnder(p)
    \/ \E p \in Procs : GetVersionFill(p) /\ FetchUnder(p)
    \/ \E p \in Procs : RewriteArchive(p)
    \/ \E p \in Procs : GetArchiveFetch(p) /\ FetchUnder(p)
    \/ \E p \in Procs : GetArchivePutH1(p)
    \/ \E p \in Procs : GetArchivePut(p)
    \/ \E p \in Procs : GetArchiveReopen(p)
    \/ \E p \in Procs : Respond(p)

SpecCancel == Init /\ [][NextCancel]_vars

\* C33: once the context of a request is cancelled, no step of the request
\* changes what storage holds.
C33_Original ==
    [][\A p \in Procs :
         req[p].cancelled /\ req'[p] # req[p] => fs' = fs]_vars

(***************************************************************************)
(* The backoff of fetch as a number: time.Duration(1<<uint(attempt)) *     *)
(* time.Second, in the 64 bits of a time.Duration.  A duration is the set  *)
(* of the bits that are 1 in its two's complement form, bit 63 the sign.   *)
(***************************************************************************)
\* The largest SPECULUM_UPSTREAM_MAX_RETRIES looked at; Config.Validate
\* refuses only negative values.
MaxConfigured == 40

\* time.Second, the nanoseconds of one second.
Second == 1000000000

RECURSIVE Pow2(_)
Pow2(n) == IF n = 0 THEN 1 ELSE 2 * Pow2(n - 1)

\* The bits of a number below 2^30.
BitsOf(n) == {i \in 0..29 : (n \div Pow2(i)) % 2 = 1}

\* 2^a seconds in nanoseconds, as a number of any size.
ExactWait(a) == {i + a : i \in BitsOf(Second)}

\* 1<<uint(attempt) in an int64: the bit `attempt`, nothing from 64 on.
ShiftOne(attempt) == IF attempt <= 63 THEN {attempt} ELSE {}

\* The product with time.Second, the bits from 64 on lost.
TimesSecond(d) == {j \in 0..63 : \E i \in BitsOf(Second), k \in d : i + k = j}

\* The duration the select waits for before attempt `attempt` + 1.
BackoffWait(attempt) == TimesSecond(ShiftOne(attempt))

IdleBackoff(maxRetries) ==
    [ pc |-> "attempt", maxRetries |-> maxRetries, attempt |-> 0,
      waits |-> 0,        \* the waits made
      wait |-> {} ]       \* the last of them

\* The attempt ends in a transport failure or a status of 500 or more.
AttemptFails ==
    /\ client.pc = "attempt"
    /\ client' = IF client.attempt < client.maxRetries
                 THEN [client EXCEPT !.attempt = @ + 1, !.waits = @ + 1,
                                     !.wait = BackoffWait(client.attempt)]
                 ELSE [client EXCEPT !.pc = "failed"]
    /\ UNCHANGED notClient

\* The attempt is answered with a status below 500.
AttemptAnswered ==
    /\ client.pc = "attempt"
    /\ client' = [client EXCEPT !.pc = "answered"]
    /\ UNCHANGED notClient

\* fetch has returned; the next call begins.
BackoffReturn ==
    /\ client.pc \in {"failed", "answered"}
    /\ client' = IdleBackoff(client.maxRetries)
    /\ UNCHANGED notClient

InitBackoff ==
    /\ fs = <<>>
    /\ upstream \in Upstreams
    /\ req = [p \in Procs |-> IdleReq]
    /\ started = 0
    /\ failures = 0
    /\ baseURL = <<"http:", "/", "/", "mirror.example", "/">>
    /\ disk = FirstDisk
    /\ calls = [t \in Threads |-> IdleCall]
    /\ ncalls = 0
    /\ last = NoResponse
    /\ \E maxRetries \in 0..MaxConfigured : client = IdleBackoff(maxRetries)

NextBackoff ==
    \/ AttemptFails
    \/ AttemptAnswered
    \/ BackoffReturn

SpecBackoff == InitBackoff /\ [][NextBackoff]_vars

\* C34: the wait after the failed attempt a, a < max_retries, is 2^a
\* seconds, a positive duration; there are as many waits as failed attempts
\* before the last one, so none after the final attempt.
C34_Original ==
    /\ client.waits = client.attempt
    /\ client.attempt <= client.maxRetries
    /\ client.waits > 0
         => /\ client.wait = ExactWait(client.attempt - 1)
            /\ 63 \notin client.wait
            /\ client.wait # {}

\* C35: whenever storage holds both the archive of a path and its h1
\* sidecar, the sidecar is the hash computeH1Hash yields for the stored
\* bytes.
C35_Original ==
    \A path \in ArchivePaths :
      LET archive == StorageGetArchive(fs, path)
          sidecar == StorageGetH1Hash(fs, path)
      IN  archive.err = "nil" /\ sidecar.err = "nil" /\ sidecar.str # <<>>
            => /\ computeH1Hash(archive.data.body).err = "nil"
               /\ sidecar.str = computeH1Hash(archive.data.body).hash

\* C36: two entries of a manifest with different upstream URLs never have
\* the same local path.
C36_Original ==
    \A p \in Procs :
      req[p].op = "version" /\ req[p].pc # "idle"
        => \A pl1, pl2 \in DOMAIN req[p].data :
             LET u1 == req[p].data[pl1].url
                 u2 == req[p].data[pl2].url
             IN  u1 # <<>> /\ u2 # <<>> /\ u1 # u2
                   => LocalPath(u1) # LocalPath(u2)

\* What GetIndex of hostname h returns on disk d: the chunks of the file
\* under the index path, or that there is none.
IndexOnDisk(d, h) ==
    LET path == indexPath(h, Namespace, ProviderType)
    IN  IF path \in DOMAIN d.names THEN <<"file", d.files[d.names[path]]>>
        ELSE <<"absent">>

\* C37: a write in one namespace changes no read in another; as the claim
\* has it in particular, no step of a PutVersion, whatever its version,
\* changes what GetIndex returns for any hostname.
C37_Original ==
    [][\A t \in Threads :
         calls[t].op = "PutVersion" /\ calls'[t] # calls[t]
           => \A h \in KeyHosts : IndexOnDisk(disk', h) = IndexOnDisk(disk, h)]_vars

\* C38: a manifest FetchVersion returns in the registry dialect, which
\* GetVersion then stores, has left out no platform whose probe was
\* inconclusive: every probe behind it ended in 200 or in 404.
C38_Original ==
    /\ ClientDone("version") /\ client.err = "nil"
    /\ IsRegistry(client.hostname, client.baseURL)
    => \A i \in DOMAIN client.seen :
         /\ client.seen[i] \in {200, 404}
         /\ client.seen[i] = 200 <=> platformKey(RegistryPlatforms[i]) \in DOMAIN client.archives

\* C39: the rewrite step applied to a manifest that is already rewritten
\* leaves every upstream-URL sidecar in storage as it is.
C39_Original ==
    [][\A p \in Procs :
         req[p].op = "rewrite" /\ req'[p] # req[p]
           => \A k \in DOMAIN fs :
                HasSuffix(k, <<".upstream">>) => k \in DOMAIN fs' /\ fs'[k] = fs[k]]_vars

\* The requests each operation of the client may send.
RequestBound(c) ==
    IF c.op = "archive" THEN 1
    ELSE IF c.op = "version" /\ IsRegistry(c.hostname, c.baseURL)
    THEN 8 * (MaxRetries + 1)
    ELSE MaxRetries + 1

\* C40: every call of the client ends after a bounded number of requests:
\* a fetch of metadata sends at most max_retries + 1 and returns an error
\* or a status below 500; FetchVersion in the registry dialect sends at
\* most 8 * (max_retries + 1), each round of its loop being one more of 8
\* probes; FetchArchive sends one.
C40_BoundedRequests ==
    /\ [](/\ client.requests <= RequestBound(client)
          /\ Len(client.seen) <= 8
          /\ client.pc = "probe" => Len(client.seen) < 8
          /\ ClientDone("archive") => client.requests = 1
          /\ \A answers \in AnswerSeqs :
               LET r == fetch(answers)
               IN  /\ r.requests >= 1 /\ r.requests <= MaxRetries + 1
                   /\ r.err = "nil" => r.status # 0 /\ r.status < 500)
    /\ [][client.pc = "probe"
            => /\ Len(client'.seen) = Len(client.seen) + 1
               /\ client'.pc \in {"probe", "done"}
               /\ client'.requests > client.requests]_vars

\* The registry dialect has probed the eight platforms with every probe
\* retried to the end: 8 * (max_retries + 1) requests.
C40_Witness ==
    /\ ClientDone("version")
    /\ IsRegistry(client.hostname, client.baseURL)
    /\ Len(client.seen) = 8
    /\ client.requests = 8 * (MaxRetries + 1)

====
